---- MODULE Spec2Model ----
(***************************************************************************)
(* A model of the limbo reasoner's Setup (src/src/vector.h, the variant    *)
(* with ShallowCopy, lines 1702-2084): a store of primitive clauses with   *)
(* a unit store (vector, lhs-hash set, sealed prefix), watched literals,   *)
(* and reversible shallow copies.  Literal and Clause (limbo/clause.h,     *)
(* limbo/literal.h) are not part of src/; their operations are modelled    *)
(* from the specification and from how Setup uses them.                    *)
(***************************************************************************)
EXTENDS Integers, Sequences, FiniteSets, TLC

(***************************************************************************)
(* The signature.  Two sorts: OBJ with names 1, 2, 3 and BOOL with names   *)
(* 1, 2.  In each sort the highest name plays the placeholder ("anything   *)
(* else").  Primitive terms 1, 2, 3 are p(1), p(2), p(3) of sort BOOL;     *)
(* primitive term 4 is the constant f of sort OBJ.                         *)
(***************************************************************************)
ObjNames == {1, 2, 3}

BoolNames == {1, 2}

PTerms == {1, 2, 3}

FTerm == 4

Terms == PTerms \cup {FTerm}

NamesOf(t) == IF t = FTerm THEN ObjNames ELSE BoolNames

Lit(t, p, n) == [lhs |-> t, pos |-> p, rhs |-> n]

Literals == {a \in [lhs : Terms, pos : BOOLEAN, rhs : ObjNames] : a.rhs \in NamesOf(a.lhs)}

\* Literal(): the default-constructed literal that vector::resize fills in.
NullLiteral == [lhs |-> 0, pos |-> FALSE, rhs |-> 0]

\* The total order on literals: by lhs, then rhs, then sign.
LitKey(a) == a.lhs * 16 + a.rhs * 2 + (IF a.pos THEN 1 ELSE 0)

\* Literal::Min(t): a lower bound of every literal whose lhs is t.
MinKey(t) == t * 16

LhsHash(t) == t % 3

\* Two literals that cannot both be true: t = n with t /= n, or t = n with
\* t = n' for distinct names n, n'.
Complementary(a, b) ==
    /\ a.lhs = b.lhs
    /\ a.lhs # 0
    /\ \/ a.pos # b.pos /\ a.rhs = b.rhs
       \/ a.pos /\ b.pos /\ a.rhs # b.rhs

\* a subsumes b: b follows from a.  Same literal, or t = n and t /= n'.
LitSubsumes(a, b) ==
    /\ a.lhs = b.lhs
    /\ a.lhs # 0
    /\ \/ a.pos = b.pos /\ a.rhs = b.rhs
       \/ a.pos /\ ~b.pos /\ a.rhs # b.rhs

\* Clause::Subsumes(c, d): every literal of c subsumes a literal of d.
ClauseSubsumes(c, d) == \A a \in c : \E b \in d : LitSubsumes(a, b)

\* Clause::Subsumes(a, d) for a unit literal a.
UnitSubsumes(a, d) == \E b \in d : LitSubsumes(a, b)

\* Clause::Subsumes(a, b, d) for the two watched literals a, b.
WatchedSubsumes(a, b, d) == UnitSubsumes(a, d) /\ UnitSubsumes(b, d)

\* c.first() and c.last(): the least and the greatest literal of a clause.
First(c) == CHOOSE a \in c : \A b \in c : LitKey(a) <= LitKey(b)

Last(c) == CHOOSE a \in c : \A b \in c : LitKey(b) <= LitKey(a)

\* c.PropagateUnits(units): drop the literals a unit contradicts.
PropagateUnits(c, units) == {a \in c : ~\E u \in units : Complementary(a, u)}

\* propagate_unit(c, u) of the specification: "gone" when u subsumes a
\* literal of c, otherwise c without the literals u contradicts.
PropagateUnit(c, u) ==
    IF UnitSubsumes(u, c) THEN "gone" ELSE PropagateUnits(c, {u})

Range(s) == {s[i] : i \in 1..Len(s)}

\* std::vector::resize(n) with value-initialised fill.
VecResize(v, n, fill) ==
    IF n <= Len(v) THEN SubSeq(v, 1, n)
    ELSE v \o [i \in 1..(n - Len(v)) |-> fill]

\* swap(v[i], v.back()); v.resize(v.size() - 1)
VecErase(v, i) ==
    LET n == Len(v) IN SubSeq([v EXCEPT ![i] = v[n]], 1, n - 1)

(***************************************************************************)
(* The Setup object: a record with the fields of the class.                *)
(***************************************************************************)
EmptySetup ==
    [empty_clause_ |-> FALSE, vec_ |-> <<>>, set_ |-> {}, n_orig_ |-> 0,
     clauses_ |-> <<>>, watched_ |-> <<>>]

Watched(a, b) == [a |-> a, b |-> b]

\* Units::Add(a) that looks only at the unsealed units.
UnitsAddCandidatesUnsealed(S, a) == {u \in S.set_ : LhsHash(u.lhs) = LhsHash(a.lhs)}

\* Units::Add(a): the units it compares a with are the sealed ones with
\* a's lhs and the unsealed ones in a's hash bucket.
UnitsAddCandidates(S, a) ==
    {S.vec_[i] : i \in {j \in 1..S.n_orig_ : j <= Len(S.vec_) /\ S.vec_[j].lhs = a.lhs}}
        \cup {u \in S.set_ : LhsHash(u.lhs) = LhsHash(a.lhs)}

UnitsAddResult(S, a) ==
    IF \E u \in UnitsAddCandidates(S, a) : Complementary(a, u) THEN "kInconsistent"
    ELSE IF \E u \in UnitsAddCandidates(S, a) : LitSubsumes(u, a) THEN "kSubsumed"
    ELSE "kOK"

UnitsAdd(S, a) ==
    IF UnitsAddResult(S, a) = "kOK"
    THEN [S EXCEPT !.set_ = @ \cup {a}, !.vec_ = Append(@, a)]
    ELSE S

\* Units::Resize(n) with its set_.erase loop forgotten.
UnitsResizeKeepsSet(S, n) == [S EXCEPT !.vec_ = VecResize(@, n, NullLiteral)]

\* Units::Resize(n)
UnitsResize(S, n) ==
    [S EXCEPT !.set_ = @ \ {S.vec_[i] : i \in (n + 1)..Len(S.vec_)},
              !.vec_ = VecResize(@, n, NullLiteral)]

\* Units::Erase(i), i counted from 1
UnitsErase(S, i) ==
    [S EXCEPT !.set_ = @ \ {S.vec_[i]}, !.vec_ = VecErase(@, i)]

\* Clauses::Add(c)
ClausesAdd(S, c) ==
    [S EXCEPT !.clauses_ = Append(@, c),
              !.watched_ = Append(@, Watched(First(c), Last(c)))]

\* Clauses::Resize(n)
ClausesResize(S, n) ==
    [S EXCEPT !.clauses_ = VecResize(@, n, {}),
              !.watched_ = VecResize(@, n, Watched(NullLiteral, NullLiteral))]

\* Clauses::Erase(i), i counted from 1
ClausesErase(S, i) ==
    [S EXCEPT !.clauses_ = VecErase(@, i), !.watched_ = VecErase(@, i)]

\* Clauses::Watch(i, a, b) that leaves the watched pair as it was.
ClausesWatchKept(S, i, a, b) == S

\* Clauses::Watch(i, a, b)
ClausesWatch(S, i, a, b) == [S EXCEPT !.watched_[i] = Watched(a, b)]

\* std::sort followed by std::unique/erase: the distinct elements in order.
RECURSIVE SortedSeq(_)
SortedSeq(lits) ==
    IF lits = {} THEN <<>>
    ELSE LET a == CHOOSE x \in lits : \A y \in lits : LitKey(x) <= LitKey(y)
         IN  <<a>> \o SortedSeq(lits \ {a})

\* Units::SealOriginalUnits()
SealOriginalUnits(S) ==
    LET v == SortedSeq(Range(S.vec_))
    IN  [S EXCEPT !.vec_ = v, !.n_orig_ = Len(v), !.set_ = {}]

\* Units::UnsealOriginalUnits()
UnsealOriginalUnits(S) ==
    [S EXCEPT !.set_ = @ \cup {S.vec_[i] : i \in 1..S.n_orig_}, !.n_orig_ = 0]

(***************************************************************************)
(* Setup::AddUnit.  The outer loop runs over the units appended since the  *)
(* call began (n), the inner loop over the stored clauses (i); r is the    *)
(* result variable of the method.  Both loops stop once empty_clause_ is   *)
(* set.                                                                    *)
(***************************************************************************)
RECURSIVE AddUnitLoop(_, _, _, _)
\* The loops of Setup::AddUnit that test only the first watched literal.
RECURSIVE AddUnitLoopWatchedA(_, _, _, _)
AddUnitLoopWatchedA(S, n, i, r) ==
    IF n > Len(S.vec_) \/ S.empty_clause_ THEN [S |-> S, r |-> r]
    ELSE IF i > Len(S.clauses_) THEN AddUnitLoopWatchedA(S, n + 1, 1, r)
    ELSE LET a == S.vec_[n]
             w == S.watched_[i]
             c == PropagateUnits(S.clauses_[i], S.set_)
         IN  IF ~Complementary(w.a, a)
             THEN AddUnitLoopWatchedA(S, n, i + 1, r)
             ELSE IF c = {}
             THEN AddUnitLoopWatchedA([S EXCEPT !.empty_clause_ = TRUE], n, i + 1, r)
             ELSE IF Cardinality(c) = 1
             THEN LET r2 == UnitsAddResult(S, First(c))
                      S2 == UnitsAdd(S, First(c))
                  IN  AddUnitLoopWatchedA([S2 EXCEPT !.empty_clause_ = @ \/ (r2 = "kInconsistent")],
                                          n, i + 1, r2)
             ELSE AddUnitLoopWatchedA(ClausesWatch(S, i, First(c), Last(c)), n, i + 1, r)

AddUnitLoop(S, n, i, r) ==
    IF n > Len(S.vec_) \/ S.empty_clause_ THEN [S |-> S, r |-> r]
    ELSE IF i > Len(S.clauses_) THEN AddUnitLoop(S, n + 1, 1, r)
    ELSE LET a == S.vec_[n]
             w == S.watched_[i]
             c == PropagateUnits(S.clauses_[i], S.set_)
         IN  IF ~(Complementary(w.a, a) \/ Complementary(w.b, a))
             THEN AddUnitLoop(S, n, i + 1, r)
             ELSE IF c = {}
             THEN AddUnitLoop([S EXCEPT !.empty_clause_ = TRUE], n, i + 1, r)
             ELSE IF Cardinality(c) = 1
             THEN LET r2 == UnitsAddResult(S, First(c))
                      S2 == UnitsAdd(S, First(c))
                  IN  AddUnitLoop([S2 EXCEPT !.empty_clause_ = @ \/ (r2 = "kInconsistent")],
                                  n, i + 1, r2)
             ELSE AddUnitLoop(ClausesWatch(S, i, First(c), Last(c)), n, i + 1, r)

\* Setup::AddUnit that assigns empty_clause_ the outcome of Units::Add
\* (= for |=), forgetting an empty clause derived earlier.
AddUnitResetsEmptyClause(S, a) ==
    LET r  == UnitsAddResult(S, a)
        S1 == UnitsAdd(S, a)
        S2 == [S1 EXCEPT !.empty_clause_ = (r = "kInconsistent")]
    IN  AddUnitLoop(S2, Len(S.vec_) + 1, 1, r)

\* Setup::AddUnit without its propagation loop.
AddUnitNoPropagation(S, a) ==
    LET r  == UnitsAddResult(S, a)
        S1 == UnitsAdd(S, a)
    IN  [S |-> [S1 EXCEPT !.empty_clause_ = @ \/ (r = "kInconsistent")], r |-> r]

AddUnit(S, a) ==
    LET r  == UnitsAddResult(S, a)
        S1 == UnitsAdd(S, a)
        S2 == [S1 EXCEPT !.empty_clause_ = @ \/ (r = "kInconsistent")]
    IN  AddUnitLoop(S2, Len(S.vec_) + 1, 1, r)

\* Setup::AddClause, after its assertion.
AddClause(S, c0) ==
    LET S1 == UnsealOriginalUnits(S)
        c  == PropagateUnits(c0, S1.set_)
    IN  IF c = {} THEN [S |-> [S1 EXCEPT !.empty_clause_ = TRUE], r |-> "kInconsistent"]
        ELSE IF Cardinality(c) = 1
        THEN LET res == AddUnit(S1, First(c))
             IN  [S |-> [res.S EXCEPT !.empty_clause_ = @ \/ (res.r = "kInconsistent")],
                  r |-> res.r]
        ELSE [S |-> ClausesAdd(S1, c), r |-> "kOK"]

\* Setup::ClausesSubsume that takes a clause to subsume only clauses other
\* than itself.
ClausesSubsumeProper(S, d) ==
    \E i \in 1..Len(S.clauses_) :
        /\ WatchedSubsumes(S.watched_[i].a, S.watched_[i].b, d)
        /\ PropagateUnits(S.clauses_[i], S.set_) # d
        /\ ClauseSubsumes(PropagateUnits(S.clauses_[i], S.set_), d)

\* Setup::ClausesSubsume
ClausesSubsume(S, d) ==
    \E i \in 1..Len(S.clauses_) :
        /\ WatchedSubsumes(S.watched_[i].a, S.watched_[i].b, d)
        /\ ClauseSubsumes(PropagateUnits(S.clauses_[i], S.set_), d)

\* Setup::Subsumes without the test of empty_clause_ at its head.
SubsumesWithoutExFalso(S, d) ==
    IF d = {} THEN S.empty_clause_
    ELSE IF \E i \in 1..Len(S.vec_) : UnitSubsumes(S.vec_[i], d) THEN TRUE
    ELSE IF Cardinality(d) = 1 /\ First(d).pos THEN FALSE
    ELSE ClausesSubsume(S, d)

\* Setup::Subsumes
Subsumes(S, d) ==
    IF S.empty_clause_ THEN TRUE
    ELSE IF d = {} THEN S.empty_clause_
    ELSE IF \E i \in 1..Len(S.vec_) : UnitSubsumes(S.vec_[i], d) THEN TRUE
    ELSE IF Cardinality(d) = 1 /\ First(d).pos THEN FALSE
    ELSE ClausesSubsume(S, d)

\* Setup::clauses() and Setup::clause(i): the clauses of the setup as a
\* sequence, the empty clause first if present, then the units, then the
\* stored clauses with the unsealed units propagated.
SetupClauses(S) ==
    (IF S.empty_clause_ THEN <<{}>> ELSE <<>>)
        \o [i \in 1..Len(S.vec_) |-> {S.vec_[i]}]
        \o [i \in 1..Len(S.clauses_) |-> PropagateUnits(S.clauses_[i], S.set_)]

\* Setup::clause_range: the indices 0 .. end_ - 1.
clause_range(S) ==
    0..((IF S.empty_clause_ THEN 1 ELSE 0) + Len(S.vec_) + Len(S.clauses_) - 1)

\* Clause(): the clause returned by value; an access past the end of
\* clauses_ returns nothing that is defined.
Returned(c) == [defined |-> TRUE, c |-> c]

OutOfBounds == [defined |-> FALSE, c |-> {}]

\* Setup::clause(i) that does not step over the empty clause.
SetupClauseUnshifted(S, i) ==
    IF i = 0 /\ S.empty_clause_ THEN Returned({})
    ELSE IF i < Len(S.vec_) THEN Returned({S.vec_[i + 1]})
    ELSE LET k == i - Len(S.vec_)
         IN  IF k < Len(S.clauses_)
             THEN Returned(PropagateUnits(S.clauses_[k + 1], S.set_))
             ELSE OutOfBounds

\* Setup::clause(i), indices from 0 as in the code.
SetupClause(S, i) ==
    IF i = 0 /\ S.empty_clause_ THEN Returned({})
    ELSE LET j == i - (IF S.empty_clause_ THEN 1 ELSE 0)
         IN  IF j < Len(S.vec_) THEN Returned({S.vec_[j + 1]})
             ELSE LET k == j - Len(S.vec_)
                  IN  IF k < Len(S.clauses_)
                      THEN Returned(PropagateUnits(S.clauses_[k + 1], S.set_))
                      ELSE OutOfBounds

\* Setup::ConsistentSet that takes any two literals of one term to clash.
ConsistentSetByLhs(lits) ==
    \A a \in lits : ~\E b \in lits : a # b /\ a.lhs = b.lhs

\* Setup::ConsistentSet
ConsistentSet(lits) ==
    \A a \in lits : ~\E b \in lits : LhsHash(a.lhs) = LhsHash(b.lhs) /\ Complementary(a, b)

\* Setup::Consistent without the test of empty_clause_ at its head.
ConsistentWithoutEmptyClause(S) == ConsistentSet(UNION Range(SetupClauses(S)))

\* Setup::Consistent
Consistent(S) ==
    IF S.empty_clause_ THEN FALSE
    ELSE ConsistentSet(UNION Range(SetupClauses(S)))

\* Setup::LocallyConsistent
LocallyConsistent(S, ts) ==
    ConsistentSet(UNION {c \in Range(SetupClauses(S)) : \E a \in c : a.lhs \in ts})

(***************************************************************************)
(* Setup::Minimize, after its first assertion.  dbg says whether the       *)
(* assertions are compiled in.  The result carries the setup and how the   *)
(* call ended: "ok", "assert" (an assertion failed and aborted the         *)
(* process; S is the state at that point) or "undefined" (with the         *)
(* assertions compiled out, Units::Erase ran on a sealed unit vector, after*)
(* which Units::Add reads vec_.begin() + n_orig_ past the vector's end).   *)
(***************************************************************************)
RECURSIVE MinimizeUnits(_, _, _)
MinimizeUnits(S, i, dbg) ==
    IF i > Len(S.vec_) THEN [S |-> S, end |-> "ok"]
    ELSE IF S.vec_[i].pos THEN MinimizeUnits(S, i + 1, dbg)
    ELSE IF S.n_orig_ # 0
    THEN [S |-> S, end |-> IF dbg THEN "assert" ELSE "undefined"]
    ELSE LET a  == S.vec_[i]
             S1 == UnitsErase(S, i)
             r  == UnitsAddResult(S1, a)
         IN  IF r = "kInconsistent" /\ dbg THEN [S |-> S1, end |-> "assert"]
             ELSE MinimizeUnits(UnitsAdd(S1, a), i + 1, dbg)

RECURSIVE MinimizeClauses(_, _, _)
MinimizeClauses(S, i, dbg) ==
    IF i = 0 THEN [S |-> S, end |-> "ok"]
    ELSE LET c  == PropagateUnits(S.clauses_[i], S.set_)
             S0 == [S EXCEPT !.clauses_[i] = {}]
             S1 == ClausesErase(S, i)
             S2 == IF Cardinality(c) >= 2 /\ ~Subsumes(S1, c) THEN ClausesAdd(S1, c) ELSE S1
         IN  IF dbg /\ (c = {} \/ (Cardinality(c) < 2 /\
                          ~\E u \in Range(S.vec_) : LitSubsumes(u, First(c))))
             THEN [S |-> S0, end |-> "assert"]
             ELSE MinimizeClauses(S2, i - 1, dbg)

Minimize(S, dbg) ==
    IF S.empty_clause_
    THEN IF dbg /\ S.n_orig_ > 0
         THEN [S |-> ClausesResize(S, 0), end |-> "assert"]
         ELSE [S |-> UnitsResize(ClausesResize(S, 0), 0),
               end |-> IF S.n_orig_ > 0 THEN "undefined" ELSE "ok"]
    ELSE LET u == MinimizeUnits(S, 1, dbg)
             c == MinimizeClauses(u.S, Len(u.S.clauses_), dbg)
         IN  IF u.end # "ok" THEN u
             ELSE IF c.end # "ok" THEN c
             ELSE [S |-> SealOriginalUnits(c.S), end |-> "ok"]

(***************************************************************************)
(* The state machine: one Setup, the ShallowCopy handles that are alive,   *)
(* and the build (assertions compiled in or out).                          *)
(***************************************************************************)
MaxUnits == 4

MaxClauses == 2

MaxCopies == 2

\* The clauses the callers add: units over f and p(1), and clauses that
\* these units shrink, subsume or leave alone.
InputClauses ==
    {{Lit(FTerm, FALSE, 1)}, {Lit(FTerm, FALSE, 3)}, {Lit(FTerm, TRUE, 2)},
     {Lit(1, FALSE, 1)},
     {Lit(1, TRUE, 1), Lit(FTerm, TRUE, 1)},
     {Lit(FTerm, TRUE, 1), Lit(FTerm, TRUE, 2)},
     {Lit(1, TRUE, 1), Lit(FTerm, TRUE, 1), Lit(FTerm, TRUE, 3)}}

(***************************************************************************)
(* Context (limbo/format/pdl/context.h): one Registry per kind of          *)
(* identifier, each a map from the identifier to what was registered, and  *)
(* the Symbol::Factory, which numbers the sorts and the symbols it creates.*)
(* The registered formulas are objects of their own: heap maps each object *)
(* to its contents.                                                        *)
(***************************************************************************)
EmptyContext ==
    [sorts_ |-> <<>>, vars_ |-> <<>>, names_ |-> <<>>, funs_ |-> <<>>,
     meta_vars_ |-> <<>>, formulas_ |-> <<>>, heap |-> <<>>,
     last_sort_ |-> 0, last_symbol_ |-> 0]

\* No call in progress.
Idle == [op |-> "none", n |-> 0, i |-> 0, r |-> ""]

\* lela::Setup without a parent: its member initialisers.
EmptyLela ==
    [contains_empty_clause_ |-> FALSE, clauses_ |-> <<>>, del_ |-> {},
     units_ |-> <<>>, unprocessed_clauses_ |-> <<>>]

VARIABLES
    setup,      \* the Setup object
    saved_,     \* Setup::saved_ (exists only when assertions are compiled in)
    NDEBUG,     \* TRUE iff the build defines NDEBUG (assertions compiled out)
    copies,     \* the live ShallowCopy handles, innermost last
    pre_copy,   \* history: the setup as it was when each live handle was made
    kb,         \* history: the clauses added through KnowledgeBase::Add
    status,     \* "running", "aborted" (an assertion failed) or "undefined"
                \* (the documented contract was broken unnoticed, or the
                \* code ran into undefined behaviour: the run is not followed)
    last,       \* history: the last call and how it ended
    ctx,        \* the Context object: its registries and symbol factory
    nf,         \* history: the last call of Formula::NF and what it returned
    caller,     \* the formula objects the caller of the Context owns, and
                \* history: the formula last registered under each id
    run,        \* the call of AddClause or Minimize in progress: its loop
                \* variables
    lela        \* the Setup object of the lela variant of the class

vars ==
    <<setup, saved_, NDEBUG, copies, pre_copy, kb, status, last, ctx, nf, caller, run, lela>>

\* What the calls on the setup as a whole leave untouched.
formula_vars == <<ctx, nf, caller, run, lela>>

Call(op, r) == [op |-> op, r |-> r, changed |-> {}]

Init ==
    /\ setup = EmptySetup
    /\ saved_ = 0
    /\ NDEBUG \in BOOLEAN
    /\ copies = <<>>
    /\ pre_copy = <<>>
    /\ kb = {}
    /\ status = "running"
    /\ last = Call("Setup", "")
    /\ ctx = EmptyContext
    /\ nf = [op |-> "none"]
    /\ caller = [own |-> {}, given |-> <<>>, from |-> <<>>, rebound |-> {}]
    /\ run = Idle
    /\ lela = EmptyLela

WithinBounds(S) == Len(S.vec_) <= MaxUnits /\ Len(S.clauses_) <= MaxClauses

\* The documented contract (lines 1646-1648, 1661-1662): AddClause is not
\* called while a copy of the setup is alive; after such a call "the
\* behaviour is undefined".  A build with assertions is meant to catch the
\* call, so there the model lets the caller try it; the run is followed up
\* to the end of that call.
MayMutate == copies = <<>> \/ ~NDEBUG

AfterMutation == IF copies = <<>> THEN "running" ELSE "undefined"

\* Setup::AddClause(c)
DoAddClause(c) ==
    /\ status = "running"
    /\ MayMutate
    /\ IF ~NDEBUG /\ saved_ # 0
       THEN /\ status' = "aborted"
            /\ last' = Call("AddClause", "assert saved_ == 0")
            /\ UNCHANGED setup
       ELSE LET res == AddClause(setup, c)
            IN  /\ WithinBounds(res.S)
                /\ setup' = res.S
                /\ last' = Call("AddClause", "ok")
                /\ status' = AfterMutation
    /\ UNCHANGED <<saved_, NDEBUG, copies, pre_copy, kb>>
    /\ UNCHANGED formula_vars

\* Setup::Minimize()
DoMinimize ==
    /\ status = "running"
    /\ MayMutate
    /\ IF ~NDEBUG /\ saved_ # 0
       THEN /\ status' = "aborted"
            /\ last' = Call("Minimize", "assert saved_ == 0")
            /\ UNCHANGED setup
       ELSE LET m == Minimize(setup, ~NDEBUG)
            IN  /\ setup' = m.S
                /\ status' = CASE m.end = "ok" -> AfterMutation
                                [] m.end = "assert" -> "aborted"
                                [] OTHER -> "undefined"
                /\ last' = Call("Minimize", m.end)
    /\ UNCHANGED <<saved_, NDEBUG, copies, pre_copy, kb>>
    /\ UNCHANGED formula_vars

\* Setup::shallow_copy(): the ShallowCopy constructor and its member
\* initialisers.
ShallowCopy(S) ==
    [empty_clause_ |-> S.empty_clause_,
     n_clauses_ |-> Len(S.clauses_),
     n_units_ |-> Len(S.vec_)]

DoShallowCopy ==
    /\ status = "running"
    /\ Len(copies) < MaxCopies
    /\ copies' = Append(copies, ShallowCopy(setup))
    /\ pre_copy' = Append(pre_copy, setup)
    /\ last' = Call("shallow_copy", "")
    /\ UNCHANGED <<setup, saved_, NDEBUG, kb, status>>
    /\ UNCHANGED formula_vars

\* ShallowCopy::AddUnit(a) on the innermost live handle
DoCopyAddUnit(a) ==
    /\ status = "running"
    /\ copies # <<>>
    /\ LET res == AddUnit(setup, a)
       IN  /\ WithinBounds(res.S)
           /\ setup' = res.S
           /\ last' = Call("AddUnit", "ok")
    /\ UNCHANGED <<saved_, NDEBUG, copies, pre_copy, kb, status>>
    /\ UNCHANGED formula_vars

\* ShallowCopy::Restore() that forgets to put back empty_clause_.
RestoreKeepsEmptyClause(S, h, dbg) ==
    IF dbg /\ h.n_units_ < S.n_orig_ THEN [S |-> S, end |-> "assert"]
    ELSE [S |-> ClausesResize(UnitsResize(S, h.n_units_), h.n_clauses_), end |-> "ok"]

\* ShallowCopy::Restore() for handle h, up to its closing assertion.  With
\* assertions compiled in, Units::Resize asserts n >= n_orig_ first.
Restore(S, h, dbg) ==
    LET S1 == [S EXCEPT !.empty_clause_ = h.empty_clause_]
    IN  IF dbg /\ h.n_units_ < S.n_orig_ THEN [S |-> S1, end |-> "assert"]
        ELSE [S |-> ClausesResize(UnitsResize(S1, h.n_units_), h.n_clauses_), end |-> "ok"]

\* For the history variable: what the calls through a handle had changed
\* in setup S since the handle was made, when the setup was P.
Changed(S, P) ==
    {x \in {"units", "watched", "empty_clause"} :
        \/ x = "units" /\ S.vec_ # P.vec_
        \/ x = "watched" /\ S.watched_ # P.watched_
        \/ x = "empty_clause" /\ S.empty_clause_ # P.empty_clause_}

\* ~ShallowCopy() of the innermost live handle.  The closing assertion is
\* assert(setup_.saved_-- > 0): it compares the old value and decrements
\* (size_t arithmetic wraps; the all-ones value is written -1 here).
DoRestore ==
    /\ status = "running"
    /\ copies # <<>>
    /\ LET h == copies[Len(copies)]
           res == Restore(setup, h, ~NDEBUG)
       IN  /\ setup' = res.S
           /\ IF NDEBUG
              THEN /\ UNCHANGED <<saved_, status>>
                   /\ last' = [Call("Restore", "ok") EXCEPT !.changed = Changed(setup, pre_copy[Len(pre_copy)])]
              ELSE IF res.end = "assert"
              THEN /\ status' = "aborted"
                   /\ last' = Call("Restore", "assert n >= n_orig_")
                   /\ UNCHANGED saved_
              ELSE /\ saved_' = IF saved_ > 0 THEN saved_ - 1 ELSE -1
                   /\ status' = IF saved_ > 0 THEN "running" ELSE "aborted"
                   /\ last' = [Call("Restore", IF saved_ > 0 THEN "ok" ELSE "assert saved_-- > 0")
                                   EXCEPT !.changed = Changed(setup, pre_copy[Len(pre_copy)])]
    /\ copies' = SubSeq(copies, 1, Len(copies) - 1)
    /\ pre_copy' = SubSeq(pre_copy, 1, Len(pre_copy) - 1)
    /\ UNCHANGED <<NDEBUG, kb>>
    /\ UNCHANGED formula_vars

\* The units added through a shallow copy: the split units t = n, and the
\* negative literals a consistency query adds.
CopyLits ==
    {Lit(FTerm, TRUE, 1), Lit(FTerm, TRUE, 3), Lit(1, TRUE, 2), Lit(FTerm, FALSE, 2)}

Next ==
    \/ \E c \in InputClauses : DoAddClause(c)
    \/ DoMinimize
    \/ DoShallowCopy
    \/ \E a \in CopyLits : DoCopyAddUnit(a)
    \/ DoRestore

Spec == Init /\ [][Next]_vars

(***************************************************************************)
(* The knowledge base on top of the setup.  KnowledgeBase and Solver are   *)
(* not part of the sources at hand; their decision procedure is modelled   *)
(* from the specification (4.6) and from the verdicts the test scripts of  *)
(* the repository assert.  Every step of it on the setup is a call of the  *)
(* Setup operations above.                                                 *)
(*                                                                         *)
(* The objective part of a query, once grounded, is a set of alternatives, *)
(* each a ground clause: a ground clause c is {c}, Ex x phi(x) is the set  *)
(* of its instances phi(n) for the names n of the sort of x (the last name *)
(* of a sort is its placeholder).                                          *)
(***************************************************************************)
MaxK == 2

\* True and the placeholder of sort BOOL; m, n and the placeholder of OBJ.
T == 1

\* Setup::Units::Determines(t): a positive unit with lhs t in the sealed
\* prefix, or any positive unit in the hash bucket of Literal::Min(t).
UnitsDetermines(S, t) ==
    \/ \E j \in 1..S.n_orig_ : j <= Len(S.vec_) /\ S.vec_[j].lhs = t /\ S.vec_[j].pos
    \/ \E u \in S.set_ : LhsHash(u.lhs) = LhsHash(t) /\ u.pos

\* The terms a query or the setup mentions.
Mentioned(S, q) == {a.lhs : a \in (UNION Range(SetupClauses(S))) \cup (UNION q)}

\* A term is determined once a unit t = n is in the setup.
Determined(S, t) == \E u \in Range(S.vec_) : u.lhs = t /\ u.pos

\* The terms a case split may pick.
SplitTerms(S, q) == {t \in Mentioned(S, q) : ~Determined(S, t)}

\* The split unit t = n added through a fresh shallow copy; the copy is
\* dropped when the branch returns, so every branch starts from S.
SplitOn(S, t, n) == AddUnit(S, Lit(t, TRUE, n)).S

\* Budget 0: some alternative is subsumed by the setup.
Know0(S, q) == \E c \in q : Subsumes(S, c)

\* Know<k>: some term whose every value leads to Know<k-1>.
RECURSIVE Know(_, _, _)
Know(S, k, q) ==
    IF k = 0 \/ SplitTerms(S, q) = {} THEN Know0(S, q)
    ELSE \E t \in SplitTerms(S, q) : \A n \in NamesOf(t) : Know(SplitOn(S, t, n), k - 1, q)

\* Budget 0: the setup is consistent and satisfies some alternative.
Cons0(S, q) == Consistent(S) /\ Know0(S, q)

\* Cons<k>: one branch of k assignments in which the setup is consistent
\* with the query.
RECURSIVE Cons(_, _, _)
Cons(S, k, q) ==
    IF k = 0 \/ SplitTerms(S, q) = {} THEN Cons0(S, q)
    ELSE \E t \in SplitTerms(S, q) : \E n \in NamesOf(t) : Cons(SplitOn(S, t, n), k - 1, q)

\* Cons<k>(True): True is satisfied by every setup.
RECURSIVE ConsTrue(_, _)
ConsTrue(S, k) ==
    IF k = 0 \/ SplitTerms(S, {}) = {} THEN Consistent(S)
    ELSE \E t \in SplitTerms(S, {}) : \E n \in NamesOf(t) : ConsTrue(SplitOn(S, t, n), k - 1)

(***************************************************************************)
(* Guarantee.  G phi is evaluated once more over a name pool extended by a *)
(* further placeholder per sort (name 4 of OBJ, name 3 of BOOL, and the    *)
(* term p(4), numbered 5), and the outcome is conjoined with the ordinary  *)
(* evaluation (specification 4.6).                                         *)
(***************************************************************************)
ExtraObjName == 4

ExtraBoolName == 3

ExtraPTerm == 5

NamesOfG(t) == IF t = FTerm THEN ObjNames \cup {ExtraObjName} ELSE BoolNames \cup {ExtraBoolName}

RECURSIVE KnowG(_, _, _)
KnowG(S, k, q) ==
    IF k = 0 \/ SplitTerms(S, q) = {} THEN Know0(S, q)
    ELSE \E t \in SplitTerms(S, q) : \A n \in NamesOfG(t) : KnowG(SplitOn(S, t, n), k - 1, q)

RECURSIVE ConsG(_, _, _)
ConsG(S, k, q) ==
    IF k = 0 \/ SplitTerms(S, q) = {} THEN Cons0(S, q)
    ELSE \E t \in SplitTerms(S, q) : \E n \in NamesOfG(t) : ConsG(SplitOn(S, t, n), k - 1, q)

\* KnowledgeBase::Add for a ground clause: pour it into the setup, then
\* minimize.
KbAdd(S, c, dbg) == Minimize(AddClause(S, c).S, dbg)

\* KnowledgeBase::Entails for Know<k> q (modal "K") and Cons<k> q ("M").
Entails(S, modal, k, q) == IF modal = "K" THEN Know(S, k, q) ELSE Cons(S, k, q)

\* Ex x (x = t) and Ex x (p(x) = T), grounded.
ExEq(t) == {{Lit(t, TRUE, n)} : n \in NamesOf(t)}

ExP == {{Lit(x, TRUE, T)} : x \in PTerms}

\* The existentials grounded over the extended pool.
ExEqG(t) == {{Lit(t, TRUE, n)} : n \in NamesOfG(t)}

ExPG == {{Lit(x, TRUE, T)} : x \in PTerms \cup {ExtraPTerm}}

\* A query grounded over the current pool, grounded once more over the
\* extended pool, without the new instances of its existential.
GroundGPlain(q) == q

\* A query grounded over the current pool, grounded once more over the
\* extended pool.
GroundG(q) ==
    IF q = ExEq(FTerm) THEN ExEqG(FTerm)
    ELSE IF q = ExP THEN ExPG
    ELSE q

\* KnowledgeBase::Entails for G Know<k> q and G Cons<k> q.
EntailsG(S, modal, k, q) ==
    /\ IF modal = "K" THEN KnowG(S, k, GroundG(q)) ELSE ConsG(S, k, GroundG(q))
    /\ Entails(S, modal, k, q)

\* The clauses of the test scripts' knowledge bases (p(m) = T v p(n) = T,
\* the father clause over two names) and units that decide, contradict or
\* shrink them.
KbClauses ==
    {{Lit(1, TRUE, T), Lit(2, TRUE, T)},
     {Lit(FTerm, TRUE, 1), Lit(FTerm, TRUE, 2)},
     {Lit(FTerm, FALSE, 1)}, {Lit(FTerm, TRUE, 2)}, {Lit(FTerm, TRUE, 3)},
     {Lit(1, FALSE, T)}, {Lit(1, TRUE, T)}}

\* The queries: the clauses of the knowledge base, their literals, the
\* existentials and False.
Queries ==
    {{c} : c \in KbClauses}
        \cup {{{a}} : a \in {Lit(1, TRUE, T), Lit(2, TRUE, T), Lit(3, TRUE, T),
                             Lit(FTerm, TRUE, 1), Lit(2, FALSE, T)}}
        \cup {ExEq(FTerm), ExP, {{}}}

\* Context::AddToKb for a ground clause
DoAddToKb(c) ==
    /\ status = "running"
    /\ copies = <<>>
    /\ c \notin kb
    /\ LET m == KbAdd(setup, c, ~NDEBUG)
       IN  /\ WithinBounds(m.S)
           /\ setup' = m.S
           /\ status' = CASE m.end = "ok" -> "running"
                           [] m.end = "assert" -> "aborted"
                           [] OTHER -> "undefined"
           /\ last' = Call("AddToKb", m.end)
    /\ kb' = kb \cup {c}
    /\ UNCHANGED <<saved_, NDEBUG, copies, pre_copy>>
    /\ UNCHANGED formula_vars

\* Context::Query: the setup is left as it was; the verdict is logged.
DoQuery(modal, k, q) ==
    /\ status = "running"
    /\ copies = <<>>
    /\ last' = Call("Query", IF Entails(setup, modal, k, q) THEN "yes" ELSE "no")
    /\ UNCHANGED <<setup, saved_, NDEBUG, copies, pre_copy, kb, status>>
    /\ UNCHANGED formula_vars

\* Context::Query for a query under G.
DoQueryG(modal, k, q) ==
    /\ status = "running"
    /\ copies = <<>>
    /\ last' = Call("QueryG", IF EntailsG(setup, modal, k, q) THEN "yes" ELSE "no")
    /\ UNCHANGED <<setup, saved_, NDEBUG, copies, pre_copy, kb, status>>
    /\ UNCHANGED formula_vars

NextKb ==
    \/ \E c \in KbClauses : DoAddToKb(c)
    \/ \E modal \in {"K", "M"} : \E k \in 0..MaxK : \E q \in Queries : DoQuery(modal, k, q)
    \/ \E modal \in {"K", "M"} : \E k \in 0..MaxK : \E q \in Queries : DoQueryG(modal, k, q)

KbSpec == Init /\ [][NextKb]_vars

(***************************************************************************)
(* Formulas (limbo/formula.h).  The atomic entities are clauses; the       *)
(* connectives are negation, disjunction, the existential quantifier and   *)
(* the modal operators.  The literals here are quasi-primitive: a function *)
(* p, q (unary, sort BOOL) or f (nullary, sort OBJ) applied to a name or a *)
(* variable on the left, a name or a variable on the right.  Atomic::      *)
(* Flatten returns such a clause unchanged (vars.size() == 0).             *)
(***************************************************************************)
Name(n) == [var |-> FALSE, id |-> n]

Var(v) == [var |-> TRUE, id |-> v]

NoArg == Name(0)

\* The literal sym(arg) = rhs or sym(arg) /= rhs.
FLit(sym, arg, pos, rhs) == [sym |-> sym, arg |-> arg, pos |-> pos, rhs |-> rhs]

\* Literal::flip
Flip(a) == [a EXCEPT !.pos = ~a.pos]

\* The variables of a literal and of a clause.
LitVars(a) == {t.id : t \in {u \in {a.arg, a.rhs} : u.var}}

ClauseVars(c) == UNION {LitVars(a) : a \in c}

\* Literal::Substitute: theta maps some variables to terms.
SubstArg(t, theta) == IF t.var /\ t.id \in DOMAIN theta THEN theta[t.id] ELSE t

SubstLit(a, theta) == [a EXCEPT !.arg = SubstArg(a.arg, theta), !.rhs = SubstArg(a.rhs, theta)]

SubstClause(c, theta) == {SubstLit(a, theta) : a \in c}

\* The order of the literals in a clause.
SymKey(sym) == CASE sym = "f" -> 0 [] sym = "p" -> 1 [] OTHER -> 2

ArgKey(t) == (IF t.var THEN 8 ELSE 0) + t.id

FLitKey(a) == ((SymKey(a.sym) * 16 + ArgKey(a.arg)) * 16 + ArgKey(a.rhs)) * 2 + (IF a.pos THEN 1 ELSE 0)

RECURSIVE ClauseSeq(_)
ClauseSeq(c) ==
    IF c = {} THEN <<>>
    ELSE LET a == CHOOSE x \in c : \A y \in c : FLitKey(x) <= FLitKey(y)
         IN  <<a>> \o ClauseSeq(c \ {a})

\* Formula::Factory
Atomic(c) == [type |-> "Atomic", c |-> c]

Not(alpha) == [type |-> "Not", arg |-> alpha]

Or(lhs, rhs) == [type |-> "Or", lhs |-> lhs, rhs |-> rhs]

Exists(x, alpha) == [type |-> "Exists", x |-> x, arg |-> alpha]

KnowF(k, alpha) == [type |-> "Know", k |-> k, arg |-> alpha]

ConsF(k, alpha) == [type |-> "Cons", k |-> k, arg |-> alpha]

Guarantee(alpha) == [type |-> "Guarantee", arg |-> alpha]

\* Formula::FreeVars of each class
RECURSIVE FreeVars(_)
FreeVars(phi) ==
    CASE phi.type = "Atomic" -> ClauseVars(phi.c)
      [] phi.type = "Or" -> FreeVars(phi.lhs) \cup FreeVars(phi.rhs)
      [] phi.type = "Exists" -> FreeVars(phi.arg) \ {phi.x}
      [] OTHER -> FreeVars(phi.arg)

\* Formula::objective
RECURSIVE Objective(_)
Objective(phi) ==
    CASE phi.type = "Atomic" -> TRUE
      [] phi.type = "Or" -> Objective(phi.lhs) /\ Objective(phi.rhs)
      [] phi.type \in {"Know", "Cons"} -> FALSE
      [] OTHER -> Objective(phi.arg)

\* std::unordered_map::insert: an existing key keeps its value.
MapInsert(tm, k, v) == IF k \in DOMAIN tm THEN tm ELSE tm @@ (k :> v)

\* The substitution Atomic::Rectify applies: the variables tm maps to
\* another variable.
Renaming(tm) == [v \in {u \in DOMAIN tm : tm[u] # u} |-> Var(tm[v])]

(***************************************************************************)
(* The virtual Rectify(tm, sf, tf) of each class.  next is the next        *)
(* variable Symbol::Factory::CreateVariable hands out.                     *)
(***************************************************************************)
RECURSIVE RectifyRec(_, _, _)
RectifyRec(phi, tm, next) ==
    CASE phi.type = "Atomic" ->
            [phi |-> Atomic(SubstClause(phi.c, Renaming(tm))), tm |-> tm, next |-> next]
      [] phi.type = "Or" ->
            LET l == RectifyRec(phi.lhs, tm, next)
                r == RectifyRec(phi.rhs, l.tm, l.next)
            IN  [phi |-> Or(l.phi, r.phi), tm |-> r.tm, next |-> r.next]
      [] phi.type = "Exists" ->
            IF phi.x \in DOMAIN tm
            THEN LET new_x == next
                     a == RectifyRec(phi.arg, MapInsert(tm, phi.x, new_x), next + 1)
                 IN  [phi |-> Exists(new_x, a.phi), tm |-> a.tm, next |-> a.next]
            ELSE LET a == RectifyRec(phi.arg, MapInsert(tm, phi.x, phi.x), next)
                 IN  [phi |-> Exists(phi.x, a.phi), tm |-> a.tm, next |-> a.next]
      [] OTHER ->
            LET a == RectifyRec(phi.arg, tm, next)
            IN  [phi |-> [phi EXCEPT !.arg = a.phi], tm |-> a.tm, next |-> a.next]

\* Formula::Rectify(sf, tf)
Rectify(phi, next) == RectifyRec(phi, [x \in FreeVars(phi) |-> x], next)

\* Formula::QuantifierPrefix: a list of kNot and kExists elements.
PrefixNot == [type |-> "Not", x |-> 0]

PrefixExists(x) == [type |-> "Exists", x |-> x]

\* QuantifierPrefix::even
Even(prefix) == Cardinality({i \in DOMAIN prefix : prefix[i].type = "Not"}) % 2 = 0

\* QuantifierPrefix::PrependTo
RECURSIVE PrependTo(_, _)
PrependTo(prefix, alpha) ==
    IF prefix = <<>> THEN alpha
    ELSE LET e == prefix[Len(prefix)]
             rest == SubSeq(prefix, 1, Len(prefix) - 1)
         IN  PrependTo(rest, IF e.type = "Not" THEN Not(alpha) ELSE Exists(e.x, alpha))

\* The virtual quantifier_prefix() of each class: the prefix and the formula
\* below it.
RECURSIVE QuantifierPrefixOf(_)
QuantifierPrefixOf(phi) ==
    CASE phi.type = "Not" ->
            LET p == QuantifierPrefixOf(phi.arg)
            IN  [prefix |-> <<PrefixNot>> \o p.prefix, core |-> p.core]
      [] phi.type = "Exists" ->
            LET p == QuantifierPrefixOf(phi.arg)
            IN  [prefix |-> <<PrefixExists(phi.x)>> \o p.prefix, core |-> p.core]
      [] OTHER -> [prefix |-> <<>>, core |-> phi]

\* Clause::unit and Clause::first
Unit(c) == Cardinality(c) = 1

FirstOf(c) == ClauseSeq(c)[1]

\* The loops of DistK and DistM: the disjunction, from left to right, of
\* Know<k>(~a) for the literals a of c.
RECURSIVE KnowFlipped(_, _)
KnowFlipped(k, lits) ==
    LET delta == KnowF(k, Atomic({Flip(lits[Len(lits)])}))
    IN  IF Len(lits) = 1 THEN delta
        ELSE Or(KnowFlipped(k, SubSeq(lits, 1, Len(lits) - 1)), delta)

\* Know::DistK
RECURSIVE DistK(_, _)
DistK(k, alpha) ==
    IF alpha.type = "Not"
    THEN LET beta == alpha.arg
         IN  CASE beta.type = "Atomic" ->
                     IF Cardinality(beta.c) = 1 THEN KnowF(k, Atomic({Flip(FirstOf(beta.c))}))
                     ELSE IF Cardinality(beta.c) >= 2 THEN Not(KnowFlipped(k, ClauseSeq(beta.c)))
                     ELSE KnowF(k, alpha)
               [] beta.type = "Not" -> DistK(k, beta.arg)
               [] beta.type = "Or" ->
                     Not(Or(Not(DistK(k, Not(beta.lhs))), Not(DistK(k, Not(beta.rhs)))))
               [] beta.type = "Exists" ->
                     Not(Exists(beta.x, Not(DistK(k, Not(beta.arg)))))
               [] OTHER -> KnowF(k, alpha)
    ELSE KnowF(k, alpha)

\* Cons::DistM
RECURSIVE DistM(_, _)
DistM(k, alpha) ==
    CASE alpha.type = "Atomic" ->
            IF Cardinality(alpha.c) >= 2 THEN KnowFlipped(k, ClauseSeq(alpha.c))
            ELSE ConsF(k, alpha)
      [] alpha.type = "Or" -> Or(DistM(k, alpha.lhs), DistM(k, alpha.rhs))
      [] alpha.type = "Exists" -> Exists(alpha.x, DistM(k, alpha.arg))
      [] OTHER -> ConsF(k, alpha)

\* Or::Normalize that merges any two sides that are atomic under their
\* prefixes.
OrNormalizeAnyParity(l, r) ==
    LET lp == QuantifierPrefixOf(l)
        rp == QuantifierPrefixOf(r)
    IN  IF lp.core.type = "Atomic" /\ rp.core.type = "Atomic"
        THEN PrependTo(lp.prefix, PrependTo(rp.prefix, Atomic(lp.core.c \cup rp.core.c)))
        ELSE Or(l, r)

\* Or::Normalize, after both sides have been normalized to l and r.
OrNormalize(l, r) ==
    LET lp == QuantifierPrefixOf(l)
        rp == QuantifierPrefixOf(r)
    IN  IF /\ lp.core.type = "Atomic" /\ (Even(lp.prefix) \/ Unit(lp.core.c))
           /\ rp.core.type = "Atomic" /\ (Even(rp.prefix) \/ Unit(rp.core.c))
        THEN LET lq == IF Even(lp.prefix) THEN lp.prefix ELSE Append(lp.prefix, PrefixNot)
                 lc == IF Even(lp.prefix) THEN lp.core.c ELSE {Flip(FirstOf(lp.core.c))}
                 rq == IF Even(rp.prefix) THEN rp.prefix ELSE Append(rp.prefix, PrefixNot)
                 rc == IF Even(rp.prefix) THEN rp.core.c ELSE {Flip(FirstOf(rp.core.c))}
             IN  PrependTo(lq, PrependTo(rq, Atomic(lc \cup rc)))
        ELSE Or(l, r)

(***************************************************************************)
(* The virtual Normalize(distribute) of each class.  cached has the shape  *)
(* of phi and stands for the free_vars_ each node of phi has cached:       *)
(* Exists::Normalize reads alpha_->free_vars(), which free_vars() computes *)
(* once per node and Rectify does not reset.                               *)
(***************************************************************************)
RECURSIVE NormalizeCached(_, _, _)
NormalizeCached(phi, cached, distribute) ==
    CASE phi.type = "Atomic" -> phi
      [] phi.type = "Or" ->
            OrNormalize(NormalizeCached(phi.lhs, cached.lhs, distribute),
                        NormalizeCached(phi.rhs, cached.rhs, distribute))
      [] phi.type = "Exists" ->
            LET ts == FreeVars(cached.arg)
                alpha == NormalizeCached(phi.arg, cached.arg, distribute)
            IN  IF phi.x \in ts THEN Exists(phi.x, alpha) ELSE alpha
      [] phi.type = "Not" ->
            CASE phi.arg.type = "Atomic" ->
                    IF Unit(phi.arg.c) THEN Atomic({Flip(FirstOf(phi.arg.c))}) ELSE phi
              [] phi.arg.type = "Not" ->
                    NormalizeCached(phi.arg.arg, cached.arg.arg, distribute)
              [] phi.arg.type = "Exists" ->
                    Not(Exists(phi.arg.x, NormalizeCached(phi.arg.arg, cached.arg.arg, distribute)))
              [] OTHER -> Not(NormalizeCached(phi.arg, cached.arg, distribute))
      [] phi.type = "Know" ->
            LET alpha == NormalizeCached(phi.arg, cached.arg, distribute)
            IN  IF distribute THEN DistK(phi.k, alpha) ELSE KnowF(phi.k, alpha)
      [] phi.type = "Cons" ->
            LET alpha == NormalizeCached(phi.arg, cached.arg, distribute)
            IN  IF distribute THEN DistM(phi.k, alpha) ELSE ConsF(phi.k, alpha)
      [] OTHER -> Guarantee(NormalizeCached(phi.arg, cached.arg, distribute))

\* Normalize(distribute) of a formula whose nodes have cached nothing yet.
Normalize(phi, distribute) == NormalizeCached(phi, phi, distribute)

\* The virtual Flatten of each class builds the same connective around the
\* flattened arguments; Atomic::Flatten returns Clone() for a clause of
\* quasi-primitive literals.
RECURSIVE Flatten(_)
Flatten(phi) ==
    CASE phi.type = "Atomic" -> phi
      [] phi.type = "Or" -> Or(Flatten(phi.lhs), Flatten(phi.rhs))
      [] OTHER -> [phi EXCEPT !.arg = Flatten(phi.arg)]

(***************************************************************************)
(* Formula::NF.  Rectify asks the clone for free_vars() first, which       *)
(* caches the free variables of every node as they are before the          *)
(* renaming; the first Normalize reads these.  Flatten builds new nodes.   *)
(***************************************************************************)
NF(phi, distribute, next) ==
    LET c1 == Rectify(phi, next)
        c2 == NormalizeCached(c1.phi, phi, distribute)
        c3 == Flatten(c2)
        c4 == Normalize(c3, distribute)
    IN  [phi |-> c4, rect |-> c1.phi, first |-> c2, next |-> c1.next]

Nothing == [just |-> FALSE, val |-> {}]

Just(c) == [just |-> TRUE, val |-> c]

\* The virtual AsUnivClause(nots) of each class.  The literals of the
\* formulas here are quasi-primitive, which is what Atomic asks of them.
RECURSIVE AsUnivClauseRec(_, _)
\* AsUnivClause(nots) with Exists passing the question on at any parity.
RECURSIVE AsUnivClauseAnyParity(_, _)
AsUnivClauseAnyParity(phi, nots) ==
    CASE phi.type = "Atomic" -> IF nots % 2 # 0 THEN Nothing ELSE Just(phi.c)
      [] phi.type = "Or" ->
            LET c1 == AsUnivClauseAnyParity(phi.lhs, nots)
                c2 == AsUnivClauseAnyParity(phi.rhs, nots)
            IN  IF nots % 2 # 0 THEN Nothing
                ELSE IF ~c1.just \/ ~c2.just THEN Nothing
                ELSE Just(c1.val \cup c2.val)
      [] phi.type = "Exists" -> AsUnivClauseAnyParity(phi.arg, nots)
      [] phi.type = "Not" -> AsUnivClauseAnyParity(phi.arg, nots + 1)
      [] OTHER -> Nothing

AsUnivClauseRec(phi, nots) ==
    CASE phi.type = "Atomic" -> IF nots % 2 # 0 THEN Nothing ELSE Just(phi.c)
      [] phi.type = "Or" ->
            LET c1 == AsUnivClauseRec(phi.lhs, nots)
                c2 == AsUnivClauseRec(phi.rhs, nots)
            IN  IF nots % 2 # 0 THEN Nothing
                ELSE IF ~c1.just \/ ~c2.just THEN Nothing
                ELSE Just(c1.val \cup c2.val)
      [] phi.type = "Exists" ->
            IF nots % 2 = 0 THEN Nothing ELSE AsUnivClauseRec(phi.arg, nots)
      [] phi.type = "Not" -> AsUnivClauseRec(phi.arg, nots + 1)
      [] OTHER -> Nothing

\* Formula::AsUnivClause()
AsUnivClause(phi) == AsUnivClauseRec(phi, 0)

(***************************************************************************)
(* The formulas handed to NF: over the variables x and y, the functions p  *)
(* and q and the names of the pool.                                        *)
(***************************************************************************)
X == 1

Y == 2

\* The first variable Symbol::Factory::CreateVariable creates after x and y.
FirstFresh == 3

P(t) == FLit("p", t, TRUE, Name(T))

Q(t) == FLit("q", t, TRUE, Name(T))

Atoms ==
    {Atomic({P(Var(X))}), Atomic({Q(Var(X))}), Atomic({Q(Var(Y))}),
     Atomic({P(Name(1))}), Atomic({P(Var(X)), Q(Var(Y))})}

Signed == Atoms \cup {Not(a) : a \in Atoms}

Quantified == {Exists(v, a) : v \in {X, Y}, a \in Signed}

Prenex ==
    Signed \cup Quantified \cup {Not(a) : a \in Quantified}
        \cup {Exists(X, a) : a \in {b \in Quantified : b.arg \in Atoms}}

Objectives == Prenex \cup {Or(a, b) : a, b \in Prenex}

Modals ==
    {KnowF(k, a) : k \in {0, 1}, a \in Prenex}
        \cup {ConsF(k, a) : k \in {0, 1}, a \in Prenex}
        \cup {Not(KnowF(1, a)) : a \in Prenex}
        \cup {Guarantee(a) : a \in Quantified}
        \cup {Or(KnowF(0, a), KnowF(1, b)) : a, b \in Quantified}
        \cup {KnowF(1, Or(a, b)) : a, b \in Quantified}
        \cup {ConsF(1, Or(a, b)) : a, b \in Quantified}

\* Double negations, alone and as a disjunct.
Nested ==
    {Not(Not(a)) : a \in Prenex}
        \cup {Or(Not(Not(a)), b) : a \in Signed, b \in Signed}

Formulas == Objectives \cup Modals \cup Nested

\* phi.NF(sf, tf, distribute), and NF again of what it returned.  NF works
\* on a clone and keeps nothing from one call to the next but the counter of
\* the symbol factory, so a run makes the call for one formula.
DoNF(phi, distribute) ==
    /\ status = "running"
    /\ nf.op = "none"
    /\ LET r == NF(phi, distribute, FirstFresh)
           again == NF(r.phi, distribute, r.next)
       IN  nf' = [op |-> "NF", phi |-> phi, distribute |-> distribute,
                  rect |-> r.rect, first |-> r.first, r |-> r.phi,
                  again |-> again.phi]
    /\ last' = Call("NF", "")
    /\ UNCHANGED <<setup, saved_, NDEBUG, copies, pre_copy, kb, status, ctx, caller, run, lela>>

NextNf == \E phi \in Formulas : \E distribute \in BOOLEAN : DoNF(phi, distribute)

NfSpec == Init /\ [][NextNf]_vars

(***************************************************************************)
(* Formula::Bel: the antecedent, the consequent and the stored material    *)
(* implication, each a formula of its own.                                 *)
(***************************************************************************)
\* The private constructor: the three parts as given.
BelOf(k, l, antecedent, consequent, not_antecedent_or_consequent) ==
    [type |-> "Bel", k |-> k, l |-> l, ante |-> antecedent, conse |-> consequent,
     not_ante_or_conse |-> not_antecedent_or_consequent]

\* The protected constructor: clones of the two arguments, and
\* Or(Not(antecedent), consequent) built from the arguments themselves.
Bel(k, l, antecedent, consequent) ==
    BelOf(k, l, antecedent, consequent, Or(Not(antecedent), consequent))

\* Bel::Clone clones the three parts; the clone has new nodes, which have
\* cached nothing.
BelClone(b) == BelOf(b.k, b.l, b.ante, b.conse, b.not_ante_or_conse)

\* Bel::FreeVars
BelFreeVars(b) == FreeVars(b.not_ante_or_conse)

\* Bel::Rectify(tm, sf, tf): the three parts in turn, with the one map.
BelRectifyRec(b, tm, next) ==
    LET a == RectifyRec(b.ante, tm, next)
        c == RectifyRec(b.conse, a.tm, a.next)
        n == RectifyRec(b.not_ante_or_conse, c.tm, c.next)
    IN  [phi |-> BelOf(b.k, b.l, a.phi, c.phi, n.phi), tm |-> n.tm, next |-> n.next]

\* Formula::Rectify(sf, tf) of a Bel.
BelRectify(b, next) == BelRectifyRec(b, [x \in BelFreeVars(b) |-> x], next)

\* Bel::Normalize.  Bel::FreeVars asks not_ante_or_conse_ only, so the
\* nodes of that part are the ones holding the free variables cached as in
\* cached; those of the other two parts compute theirs when asked.
BelNormalizeCached(b, cached, distribute) ==
    BelOf(b.k, b.l, Normalize(b.ante, distribute), Normalize(b.conse, distribute),
          NormalizeCached(b.not_ante_or_conse, cached.not_ante_or_conse, distribute))

\* Bel::Flatten: each part with nots = 0.
BelFlatten(b) ==
    BelOf(b.k, b.l, Flatten(b.ante), Flatten(b.conse), Flatten(b.not_ante_or_conse))

\* Formula::NF of a Bel, step by step.
BelNF(b, distribute, next) ==
    LET c0 == BelClone(b)
        c1 == BelRectify(c0, next)
        c2 == BelNormalizeCached(c1.phi, c0, distribute)
        c3 == BelFlatten(c2)
        c4 == BelNormalizeCached(c3, c3, distribute)
    IN  [clone |-> c0, rect |-> c1.phi, first |-> c2, flat |-> c3, phi |-> c4,
         next |-> c1.next]

\* The antecedents and consequents of the conditional beliefs.
BelParts == Signed \cup Quantified

Beliefs == {Bel(k, l, a, c) : k \in {0, 1}, l \in {1}, a \in BelParts, c \in BelParts}

\* Factory::Bel(k, l, antecedent, consequent) followed by NF.
DoBelNF(b, distribute) ==
    /\ status = "running"
    /\ nf.op = "none"
    /\ LET r == BelNF(b, distribute, FirstFresh)
       IN  nf' = [op |-> "Bel", phi |-> b, distribute |-> distribute,
                  clone |-> r.clone, rect |-> r.rect, first |-> r.first,
                  flat |-> r.flat, r |-> r.phi]
    /\ last' = Call("NF", "")
    /\ UNCHANGED <<setup, saved_, NDEBUG, copies, pre_copy, kb, status, ctx, caller, run, lela>>

NextBel == \E b \in Beliefs : \E distribute \in BOOLEAN : DoBelNF(b, distribute)

BelSpec == Init /\ [][NextBel]_vars

(***************************************************************************)
(* Context::AddToKb and Context::Query statement by statement: the call on *)
(* the knowledge base, the call of the logger, the return.  The logger is  *)
(* a functor of the caller's choosing; it is handed the data by const      *)
(* reference, and what it makes of them (note) is its own affair.          *)
(***************************************************************************)
\* DefaultLogger::AddToKbData(alpha, ok)
AddToKbData(alpha, ok) == [kind |-> "AddToKbData", alpha |-> alpha, ok |-> ok]

\* DefaultLogger::QueryData(kb, phi, yes)
QueryData(S, phi, yes) == [kind |-> "QueryData", kb |-> S, alpha |-> phi, ok |-> yes]

\* logger_(d) with a logger that is not called.
LoggerSkipped(log, d, note) == log

\* logger_(d): one invocation, with d.
LoggerCall(log, d, note) == Append(log, [d |-> d, note |-> note])

\* Formulas that are no clauses; whether KnowledgeBase::Add accepts one is
\* not decided here.
NonClauses == {Exists(v, a) : v \in {X}, a \in Atoms}

\* The queries put while the logger is watched.
LogQueries ==
    {{{Lit(1, TRUE, T), Lit(2, TRUE, T)}}, {{Lit(FTerm, TRUE, 2)}},
     {{Lit(2, TRUE, T)}}, ExEq(FTerm), {{}}}

\* const bool ok = kb_.Add(alpha), for a ground clause
CallAddToKb(c) ==
    /\ status = "running"
    /\ run.op = "none"
    /\ copies = <<>>
    /\ c \notin kb
    /\ LET m == KbAdd(setup, c, ~NDEBUG)
       IN  /\ WithinBounds(m.S)
           /\ setup' = m.S
           /\ status' = CASE m.end = "ok" -> "running"
                           [] m.end = "assert" -> "aborted"
                           [] OTHER -> "undefined"
    /\ kb' = kb \cup {c}
    /\ run' = [op |-> "AddToKb", pc |-> "logger_", alpha |-> c, ok |-> TRUE, log |-> <<>>]
    /\ UNCHANGED <<saved_, NDEBUG, copies, pre_copy, last, ctx, nf, caller, lela>>

\* const bool ok = kb_.Add(alpha), for a formula that is no clause
CallAddToKbFormula(alpha, ok) ==
    /\ status = "running"
    /\ run.op = "none"
    /\ copies = <<>>
    /\ run' = [op |-> "AddToKb", pc |-> "logger_", alpha |-> alpha, ok |-> ok, log |-> <<>>]
    /\ UNCHANGED <<setup, saved_, NDEBUG, copies, pre_copy, kb, status, last, ctx, nf, caller, lela>>

\* const bool yes = kb_.Entails(alpha, distribute_)
CallQuery(modal, k, q) ==
    /\ status = "running"
    /\ run.op = "none"
    /\ copies = <<>>
    /\ run' = [op |-> "Query", pc |-> "logger_", alpha |-> [modal |-> modal, k |-> k, q |-> q],
               ok |-> Entails(setup, modal, k, q), log |-> <<>>]
    /\ UNCHANGED <<setup, saved_, NDEBUG, copies, pre_copy, kb, status, last, ctx, nf, caller, lela>>

\* logger_(DefaultLogger::AddToKbData(alpha, ok)) and
\* logger_(DefaultLogger::QueryData(kb_, alpha, yes))
StepLogger ==
    /\ status = "running"
    /\ run.op \in {"AddToKb", "Query"}
    /\ run.pc = "logger_"
    /\ \E note \in BOOLEAN :
          LET d == IF run.op = "AddToKb" THEN AddToKbData(run.alpha, run.ok)
                   ELSE QueryData(setup, run.alpha, run.ok)
          IN  run' = [run EXCEPT !.log = LoggerCall(@, d, note), !.pc = "return"]
    /\ UNCHANGED <<setup, saved_, NDEBUG, copies, pre_copy, kb, status, last, ctx, nf, caller, lela>>

\* return ok; return yes;
StepReturn ==
    /\ status = "running"
    /\ run.op \in {"AddToKb", "Query"}
    /\ run.pc = "return"
    /\ last' = Call(run.op, run.ok)
    /\ run' = Idle
    /\ UNCHANGED <<setup, saved_, NDEBUG, copies, pre_copy, kb, status, ctx, nf, caller, lela>>

NextLog ==
    \/ \E c \in KbClauses : CallAddToKb(c)
    \/ \E alpha \in NonClauses : \E ok \in BOOLEAN : CallAddToKbFormula(alpha, ok)
    \/ \E modal \in {"K", "M"} : \E k \in {0, 1} : \E q \in LogQueries : CallQuery(modal, k, q)
    \/ StepLogger
    \/ StepReturn

LogSpec == Init /\ [][NextLog]_vars

(***************************************************************************)
(* Context: the registries and the calls that fill them.                   *)
(***************************************************************************)
MaxSorts == 3

MaxSymbols == 2

MaxObjects == 4

SortIds == {"OBJ", "BOOL"}

Ids == {"a", "b"}

FormulaIds == {"phi", "psi"}

\* Registry::Registered
Registered(r_, id) == id \in DOMAIN r_

\* Registry::Register(id, const T& val): std::map::insert keeps an existing
\* entry.
Register(r_, id, val) == IF id \in DOMAIN r_ THEN r_ ELSE r_ @@ (id :> val)

\* Registry::Unregister with an erase that leaves the entry in place.
UnregisterKept(r_, id) == r_

\* Registry::Unregister
Unregister(r_, id) == [x \in DOMAIN r_ \ {id} |-> r_[x]]

\* Registry::Register(id, T&& val): Unregister(id), then emplace.
RegisterMove(r_, id, val) == Unregister(r_, id) @@ (id :> val)

CtxCall(op, id, sort_id, r) ==
    [op |-> op, r |-> r, changed |-> {}, id |-> id, sort_id |-> sort_id]

\* Context::RegisterSort(id)
DoRegisterSort(id) ==
    /\ status = "running"
    /\ ctx.last_sort_ < MaxSorts
    /\ LET sort == ctx.last_sort_ + 1
       IN  ctx' = [ctx EXCEPT !.last_sort_ = sort, !.sorts_ = Register(@, id, sort)]
    /\ last' = CtxCall("RegisterSort", id, "", "ok")
    /\ UNCHANGED <<setup, saved_, NDEBUG, copies, pre_copy, kb, status, nf, caller, run, lela>>

\* The registry of each kind of symbol.
RegistryOf(op) ==
    CASE op = "RegisterSort" -> "sorts_"
      [] op = "RegisterVariable" -> "vars_"
      [] op = "RegisterName" -> "names_"
      [] op = "RegisterFunction" -> "funs_"
      [] OTHER -> "meta_vars_"

(***************************************************************************)
(* Context::RegisterVariable, RegisterName and RegisterFunction(id, arity, *)
(* sort_id).  LookupSort(sort_id) is Registry::Find, which dereferences    *)
(* r_.find(id) without comparing it with r_.end(): for an unregistered     *)
(* sort_id the behaviour is undefined.  The call may crash, or go on with  *)
(* whatever sort it read; the run is not followed further.                 *)
(***************************************************************************)
RegisterSymbol(op, id, arity, sort_id) ==
    LET reg == RegistryOf(op)
        Created(sort) ==
            [ctx EXCEPT !.last_symbol_ = @ + 1,
                        ![reg] = Register(@, id, [symbol |-> ctx.last_symbol_ + 1,
                                                  sort |-> sort, arity |-> arity])]
    IN  /\ status = "running"
        /\ IF Registered(ctx[reg], id)
           THEN /\ last' = CtxCall(op, id, sort_id, "throw")
                /\ UNCHANGED <<ctx, status>>
           ELSE /\ ctx.last_symbol_ < MaxSymbols
                /\ IF Registered(ctx.sorts_, sort_id)
                   THEN /\ ctx' = Created(ctx.sorts_[sort_id])
                        /\ last' = CtxCall(op, id, sort_id, "ok")
                        /\ UNCHANGED status
                   ELSE /\ \/ UNCHANGED ctx
                           \/ \E sort \in 0..MaxSorts : ctx' = Created(sort)
                        /\ last' = CtxCall(op, id, sort_id, "undefined")
                        /\ status' = "undefined"
        /\ UNCHANGED <<setup, saved_, NDEBUG, copies, pre_copy, kb, nf, caller, run, lela>>

DoRegisterVariable(id, sort_id) == RegisterSymbol("RegisterVariable", id, 0, sort_id)

DoRegisterName(id, sort_id) == RegisterSymbol("RegisterName", id, 0, sort_id)

DoRegisterFunction(id, arity, sort_id) == RegisterSymbol("RegisterFunction", id, arity, sort_id)

\* Context::RegisterMetaVariable(id, t)
DoRegisterMetaVariable(id, t) ==
    /\ status = "running"
    /\ IF Registered(ctx.meta_vars_, id)
       THEN /\ last' = CtxCall("RegisterMetaVariable", id, "", "throw")
            /\ UNCHANGED ctx
       ELSE /\ ctx' = [ctx EXCEPT !.meta_vars_ = Register(@, id, t)]
            /\ last' = CtxCall("RegisterMetaVariable", id, "", "ok")
    /\ UNCHANGED <<setup, saved_, NDEBUG, copies, pre_copy, kb, status, nf, caller, run, lela>>

\* Context::UnregisterMetaVariable(id)
DoUnregisterMetaVariable(id) ==
    /\ status = "running"
    /\ IF ~Registered(ctx.meta_vars_, id)
       THEN /\ last' = CtxCall("UnregisterMetaVariable", id, "", "throw")
            /\ UNCHANGED ctx
       ELSE /\ ctx' = [ctx EXCEPT !.meta_vars_ = Unregister(@, id)]
            /\ last' = CtxCall("UnregisterMetaVariable", id, "", "ok")
    /\ UNCHANGED <<setup, saved_, NDEBUG, copies, pre_copy, kb, status, nf, caller, run, lela>>

\* Context::IsRegisteredMetaVariable
IsRegisteredMetaVariable(c, id) == Registered(c.meta_vars_, id)

\* Context::LookupMetaVariable: Registry::Find of a registered id.
LookupMetaVariable(c, id) == c.meta_vars_[id]

(***************************************************************************)
(* Formula objects.  A Formula::Ref owns its object; ctx.heap maps every   *)
(* live object to its contents.  The caller of the Context builds formulas *)
(* (caller.own), registers them and may change them afterwards.            *)
(***************************************************************************)
Refs == 1..MaxObjects

HasRoom(heap) == Refs \ DOMAIN heap # {}

NewRef(heap) == CHOOSE r \in Refs \ DOMAIN heap : \A q \in Refs \ DOMAIN heap : r <= q

\* A Clone() that hands out the object it was called on.
CloneShared(heap, ref) == [heap |-> heap, ref |-> ref]

\* Formula::Clone: a new object with the same contents.
Clone(heap, ref) == [heap |-> heap @@ (NewRef(heap) :> heap[ref]), ref |-> NewRef(heap)]

\* Formula::SubstituteFree(theta, tf): ISubstitute of each class, with the
\* quantified variables bound.
RECURSIVE SubstituteFree(_, _)
SubstituteFree(phi, theta) ==
    CASE phi.type = "Atomic" -> Atomic(SubstClause(phi.c, theta))
      [] phi.type = "Or" -> Or(SubstituteFree(phi.lhs, theta), SubstituteFree(phi.rhs, theta))
      [] phi.type = "Exists" ->
            Exists(phi.x, SubstituteFree(phi.arg, [v \in DOMAIN theta \ {phi.x} |-> theta[v]]))
      [] OTHER -> [phi EXCEPT !.arg = SubstituteFree(phi.arg, theta)]

\* Context::LookupFormula(id)
LookupFormula(c, id) == c.heap[c.formulas_[id]]

RegFormulas ==
    {Atomic({P(Var(X))}), Exists(X, Atomic({P(Var(X)), Q(Var(Y))})),
     Or(Atomic({P(Var(X))}), Atomic({Q(Var(Y))}))}

Thetas == {X :> Name(1), Y :> Name(2)}

\* The caller builds the formula phi: Formula::Factory.
DoNewFormula(phi) ==
    /\ status = "running"
    /\ Cardinality(DOMAIN ctx.heap) + 1 < MaxObjects
    /\ LET ref == NewRef(ctx.heap)
       IN  /\ ctx' = [ctx EXCEPT !.heap = @ @@ (ref :> phi)]
           /\ caller' = [caller EXCEPT !.own = @ \cup {ref}]
    /\ last' = CtxCall("Factory", "", "", "ok")
    /\ UNCHANGED <<setup, saved_, NDEBUG, copies, pre_copy, kb, status, nf, run, lela>>

\* Context::RegisterFormula(id, phi), phi the caller's object ref: the
\* clone is made first, then Registry::Register(id, T&&) destroys the
\* object registered so far and stores the clone.
DoRegisterFormula(id, ref) ==
    /\ status = "running"
    /\ ref \in caller.own \cap DOMAIN ctx.heap
    /\ HasRoom(ctx.heap)
    /\ LET c == Clone(ctx.heap, ref)
           old == IF Registered(ctx.formulas_, id) THEN {ctx.formulas_[id]} ELSE {}
       IN  ctx' = [ctx EXCEPT !.formulas_ = RegisterMove(@, id, c.ref),
                              !.heap = [r \in DOMAIN c.heap \ old |-> c.heap[r]]]
    /\ caller' = [caller EXCEPT !.given = RegisterMove(@, id, ctx.heap[ref]),
                                !.from = RegisterMove(@, id, ref),
                                !.rebound = IF Registered(ctx.formulas_, id) THEN @ \cup {id} ELSE @]
    /\ last' = CtxCall("RegisterFormula", id, "", "ok")
    /\ UNCHANGED <<setup, saved_, NDEBUG, copies, pre_copy, kb, status, nf, run, lela>>

\* The caller changes its formula ref: Formula::SubstituteFree.
DoSubstituteFree(ref, theta) ==
    /\ status = "running"
    /\ ref \in caller.own \cap DOMAIN ctx.heap
    /\ SubstituteFree(ctx.heap[ref], theta) # ctx.heap[ref]
    /\ ctx' = [ctx EXCEPT !.heap[ref] = SubstituteFree(@, theta)]
    /\ last' = CtxCall("SubstituteFree", ref, "", "ok")
    /\ UNCHANGED <<setup, saved_, NDEBUG, copies, pre_copy, kb, status, nf, caller, run, lela>>

NextCtx ==
    \/ \E id \in SortIds : DoRegisterSort(id)
    \/ \E id \in Ids : \E sort_id \in SortIds : DoRegisterVariable(id, sort_id)
    \/ \E id \in Ids : \E sort_id \in SortIds : DoRegisterName(id, sort_id)
    \/ \E id \in Ids : \E arity \in {0, 1} : \E sort_id \in SortIds :
          DoRegisterFunction(id, arity, sort_id)
    \/ \E id \in Ids : \E t \in {Name(1), Name(2)} : DoRegisterMetaVariable(id, t)
    \/ \E id \in Ids : DoUnregisterMetaVariable(id)

CtxSpec == Init /\ [][NextCtx]_vars

\* The formulas of a Context: Let phi := ... of the problem description
\* language, and what the caller does with its own formulas.
NextLet ==
    \/ \E phi \in RegFormulas : DoNewFormula(phi)
    \/ \E id \in FormulaIds : \E ref \in Refs : DoRegisterFormula(id, ref)
    \/ \E ref \in Refs : \E theta \in Thetas : DoSubstituteFree(ref, theta)

LetSpec == Init /\ [][NextLet]_vars

(***************************************************************************)
(* The loops of setup construction, one iteration per step.  A program     *)
(* links one of the two Setup classes: the calls on setup (limbo) and on   *)
(* lela are not mixed in one run.                                          *)
(***************************************************************************)
MaxStored == 3

Running(op) == [Idle EXCEPT !.op = op]

\* Setup::AddClause(c) up to the loop of AddUnit.
CallAddClause(c) ==
    /\ status = "running"
    /\ run = Idle
    /\ lela = EmptyLela
    /\ WithinBounds(AddClause(setup, c).S)
    /\ LET S1 == UnsealOriginalUnits(setup)
           c1 == PropagateUnits(c, S1.set_)
           r  == UnitsAddResult(S1, First(c1))
       IN  IF c1 = {}
           THEN /\ setup' = [S1 EXCEPT !.empty_clause_ = TRUE]
                /\ last' = Call("AddClause", "kInconsistent")
                /\ UNCHANGED run
           ELSE IF Cardinality(c1) = 1
           THEN /\ setup' = [UnitsAdd(S1, First(c1)) EXCEPT
                                !.empty_clause_ = @ \/ (r = "kInconsistent")]
                /\ run' = [op |-> "AddUnit", n |-> Len(S1.vec_) + 1, i |-> 1, r |-> r]
                /\ UNCHANGED last
           ELSE /\ setup' = ClausesAdd(S1, c1)
                /\ last' = Call("AddClause", "kOK")
                /\ UNCHANGED run
    /\ UNCHANGED <<saved_, NDEBUG, copies, pre_copy, kb, status, ctx, nf, caller, lela>>

\* Setup::AddUnit: the loop test or one iteration of the inner loop; when
\* the loop ends, AddClause returns what AddUnit returned.
StepAddUnit ==
    /\ run.op = "AddUnit"
    /\ LET S == setup
           n == run.n
           i == run.i
       IN  IF n > Len(S.vec_) \/ S.empty_clause_
           THEN /\ setup' = [S EXCEPT !.empty_clause_ = @ \/ (run.r = "kInconsistent")]
                /\ run' = Idle
                /\ last' = Call("AddClause", run.r)
           ELSE IF i > Len(S.clauses_)
           THEN /\ run' = [run EXCEPT !.n = n + 1, !.i = 1]
                /\ UNCHANGED <<setup, last>>
           ELSE LET a == S.vec_[n]
                    w == S.watched_[i]
                    c == PropagateUnits(S.clauses_[i], S.set_)
                    r2 == UnitsAddResult(S, First(c))
                IN  /\ UNCHANGED last
                    /\ IF ~(Complementary(w.a, a) \/ Complementary(w.b, a))
                       THEN /\ run' = [run EXCEPT !.i = i + 1]
                            /\ UNCHANGED setup
                       ELSE IF c = {}
                       THEN /\ run' = [run EXCEPT !.i = i + 1]
                            /\ setup' = [S EXCEPT !.empty_clause_ = TRUE]
                       ELSE IF Cardinality(c) = 1
                       THEN /\ run' = [run EXCEPT !.i = i + 1, !.r = r2]
                            /\ setup' = [UnitsAdd(S, First(c)) EXCEPT
                                            !.empty_clause_ = @ \/ (r2 = "kInconsistent")]
                       ELSE /\ run' = [run EXCEPT !.i = i + 1]
                            /\ setup' = ClausesWatch(S, i, First(c), Last(c))
    /\ UNCHANGED <<saved_, NDEBUG, copies, pre_copy, kb, status, ctx, nf, caller, lela>>

\* How a call that stopped at a failed assertion or in undefined behaviour
\* leaves the run.
Stopped(end) == IF end = "assert" THEN "aborted" ELSE "undefined"

\* Setup::Minimize() up to its first loop.
CallMinimize ==
    /\ status = "running"
    /\ run = Idle
    /\ lela = EmptyLela
    /\ IF setup.empty_clause_
       THEN LET m == Minimize(setup, ~NDEBUG)
            IN  /\ setup' = m.S
                /\ status' = IF m.end = "ok" THEN status ELSE Stopped(m.end)
                /\ last' = Call("Minimize", m.end)
                /\ UNCHANGED run
       ELSE /\ run' = [Running("MinimizeUnits") EXCEPT !.i = 1]
            /\ UNCHANGED <<setup, status, last>>
    /\ UNCHANGED <<saved_, NDEBUG, copies, pre_copy, kb, ctx, nf, caller, lela>>

\* Setup::Minimize: the loop test or one iteration of the loop over the
\* units.
StepMinimizeUnits ==
    /\ run.op = "MinimizeUnits"
    /\ LET S == setup
           i == run.i
           a == S.vec_[i]
           S1 == UnitsErase(S, i)
       IN  IF i > Len(S.vec_)
           THEN /\ run' = [Running("MinimizeClauses") EXCEPT !.i = Len(S.clauses_)]
                /\ UNCHANGED <<setup, status, last>>
           ELSE IF a.pos
           THEN /\ run' = [run EXCEPT !.i = i + 1]
                /\ UNCHANGED <<setup, status, last>>
           ELSE IF S.n_orig_ # 0
           THEN /\ run' = Idle
                /\ status' = Stopped(IF NDEBUG THEN "undefined" ELSE "assert")
                /\ last' = Call("Minimize", IF NDEBUG THEN "undefined" ELSE "assert")
                /\ UNCHANGED setup
           ELSE IF UnitsAddResult(S1, a) = "kInconsistent" /\ ~NDEBUG
           THEN /\ run' = Idle
                /\ setup' = S1
                /\ status' = "aborted"
                /\ last' = Call("Minimize", "assert")
           ELSE /\ run' = [run EXCEPT !.i = i + 1]
                /\ setup' = UnitsAdd(S1, a)
                /\ UNCHANGED <<status, last>>
    /\ UNCHANGED <<saved_, NDEBUG, copies, pre_copy, kb, ctx, nf, caller, lela>>

\* Setup::Minimize: the loop test or one iteration of the loop over the
\* clauses, and the sealing of the units after it.
StepMinimizeClauses ==
    /\ run.op = "MinimizeClauses"
    /\ LET S == setup
           i == run.i
           c == PropagateUnits(S.clauses_[i], S.set_)
           S1 == ClausesErase(S, i)
       IN  IF i = 0
           THEN /\ run' = Idle
                /\ setup' = SealOriginalUnits(S)
                /\ last' = Call("Minimize", "ok")
                /\ UNCHANGED status
           ELSE IF ~NDEBUG /\ (c = {} \/ (Cardinality(c) < 2 /\
                                 ~\E u \in Range(S.vec_) : LitSubsumes(u, First(c))))
           THEN /\ run' = Idle
                /\ setup' = [S EXCEPT !.clauses_[i] = {}]
                /\ status' = "aborted"
                /\ last' = Call("Minimize", "assert")
           ELSE /\ run' = [run EXCEPT !.i = i - 1]
                /\ setup' = IF Cardinality(c) >= 2 /\ ~Subsumes(S1, c)
                            THEN ClausesAdd(S1, c) ELSE S1
                /\ UNCHANGED <<status, last>>
    /\ UNCHANGED <<saved_, NDEBUG, copies, pre_copy, kb, ctx, nf, caller, lela>>

(***************************************************************************)
(* lela::Setup.  Clause indices are counted from 1; del_ is the set of the *)
(* indices whose bit is set.                                               *)
(***************************************************************************)
Enabled(L) == {j \in 1..Len(L.clauses_) : j \notin L.del_}

\* lela::Setup::Subsumes(c).  No literal of the model is valid; the empty
\* clause is the only invalid clause.
LelaSubsumes(L, c) ==
    IF L.contains_empty_clause_ THEN TRUE
    ELSE IF c = {} THEN L.contains_empty_clause_
    ELSE \E j \in Enabled(L) : ClauseSubsumes(L.clauses_[j], c)

\* lela::Setup::PropagateUnits(c)
LelaPropagateUnits(L, c) == PropagateUnits(c, Range(L.units_))

\* lela::Setup::RemoveSubsumed(i)
RemoveSubsumed(L, i) ==
    [L EXCEPT !.del_ = @ \cup {j \in Enabled(L) :
                                  i # j /\ ClauseSubsumes(L.clauses_[i], L.clauses_[j])}]

\* The clauses the loop at the end of ProcessClauses adds to the work list
\* for the new unit a: for each enabled clause that a shortens, the
\* shortened clause.
RECURSIVE Shortened(_, _, _)
Shortened(L, a, j) ==
    IF j > Len(L.clauses_) THEN <<>>
    ELSE (IF j \in Enabled(L) /\ PropagateUnits(L.clauses_[j], {a}) # L.clauses_[j]
          THEN <<PropagateUnits(L.clauses_[j], {a})>> ELSE <<>>)
             \o Shortened(L, a, j + 1)

\* unprocessed_clauses_.pop_back() that leaves the clause in the list.
PopBackKeeps(v) == v

\* std::vector::pop_back
PopBack(v) == SubSeq(v, 1, Len(v) - 1)

\* One iteration of the loop of lela::Setup::ProcessClauses.
ProcessClause(L) ==
    LET c0 == L.unprocessed_clauses_[Len(L.unprocessed_clauses_)]
        L1 == [L EXCEPT !.unprocessed_clauses_ = PopBack(@)]
        c  == LelaPropagateUnits(L1, c0)
        L2 == [L1 EXCEPT !.clauses_ = Append(@, c),
                         !.contains_empty_clause_ = @ \/ (c = {})]
        L3 == RemoveSubsumed(L2, Len(L2.clauses_))
    IN  IF LelaSubsumes(L1, c0) THEN L1
        ELSE IF Cardinality(c) = 1
        THEN [L3 EXCEPT !.units_ = Append(@, First(c)),
                        !.unprocessed_clauses_ = @ \o Shortened(L3, First(c), 1)]
        ELSE L3

LelaClauses ==
    {{Lit(1, FALSE, T)}, {Lit(2, FALSE, T)}, {Lit(FTerm, TRUE, 1)},
     {Lit(1, TRUE, T), Lit(2, TRUE, T)},
     {Lit(1, TRUE, T), Lit(2, TRUE, T), Lit(FTerm, FALSE, 1)},
     {Lit(2, TRUE, T), Lit(FTerm, TRUE, 2)}}

\* lela::Setup::AddClause(c) up to the loop of ProcessClauses.
CallLelaAddClause(c) ==
    /\ status = "running"
    /\ run = Idle
    /\ setup = EmptySetup
    /\ Len(lela.clauses_) < MaxStored
    /\ lela' = [lela EXCEPT !.unprocessed_clauses_ = Append(@, c)]
    /\ run' = Running("ProcessClauses")
    /\ UNCHANGED <<setup, saved_, NDEBUG, copies, pre_copy, kb, status, last, ctx, nf, caller>>

\* lela::Setup::ProcessClauses: the loop test or one iteration.
StepProcessClauses ==
    /\ run.op = "ProcessClauses"
    /\ IF lela.unprocessed_clauses_ = <<>>
       THEN /\ run' = Idle
            /\ last' = Call("lela::AddClause", "")
            /\ UNCHANGED lela
       ELSE /\ lela' = ProcessClause(lela)
            /\ UNCHANGED <<run, last>>
    /\ UNCHANGED <<setup, saved_, NDEBUG, copies, pre_copy, kb, status, ctx, nf, caller>>

\* The running call goes on.
Step == StepAddUnit \/ StepMinimizeUnits \/ StepMinimizeClauses \/ StepProcessClauses

NextRun ==
    \/ \E c \in InputClauses : CallAddClause(c)
    \/ CallMinimize
    \/ \E c \in LelaClauses : CallLelaAddClause(c)
    \/ StepAddUnit
    \/ StepMinimizeUnits
    \/ StepMinimizeClauses
    \/ StepProcessClauses

\* A call is a sequential program: while it is in a loop it keeps running.
RunSpec == Init /\ [][NextRun]_vars /\ WF_vars(Step)

(***************************************************************************)
(* Atomic::Flatten on clauses with nested function terms.  A term is a     *)
(* variable, a name or a function symbol applied to terms.  Term and       *)
(* Literal (limbo/term.h, limbo/literal.h) are not part of src/: a literal *)
(* is kept with a function on its left whenever one of its sides is a      *)
(* function, as the specification says of its canonical form.              *)
(***************************************************************************)
TName(n) == [kind |-> "name", id |-> n, args |-> <<>>]

TVar(v) == [kind |-> "var", id |-> v, args |-> <<>>]

Fn(f, args) == [kind |-> "fn", id |-> f, args |-> args]

IsFunction(t) == t.kind = "fn"

IsVariable(t) == t.kind = "var"

Arity(t) == Len(t.args)

\* Term::quasiprimitive
QuasiPrimitiveTerm(t) == IsFunction(t) /\ \A k \in DOMAIN t.args : ~IsFunction(t.args[k])

\* Literal::Eq, Literal::Neq
MakeLiteral(pos, l, r) ==
    IF ~IsFunction(l) /\ IsFunction(r) THEN [pos |-> pos, lhs |-> r, rhs |-> l]
    ELSE [pos |-> pos, lhs |-> l, rhs |-> r]

Eq(l, r) == MakeLiteral(TRUE, l, r)

Neq(l, r) == MakeLiteral(FALSE, l, r)

FlipLiteral(a) == [a EXCEPT !.pos = ~a.pos]

\* Literal::quasiprimitive
QuasiPrimitive(a) == QuasiPrimitiveTerm(a.lhs) /\ ~IsFunction(a.rhs)

\* The test of the first branch of the loop and of the closing assertion.
Flattened(a) == QuasiPrimitive(a) \/ (~IsFunction(a.lhs) /\ ~IsFunction(a.rhs))

\* Term::Substitute with Term::Substitution(old, new)
RECURSIVE SubstituteTerm(_, _, _)
SubstituteTerm(t, old, new) ==
    IF t = old THEN new
    ELSE [t EXCEPT !.args = [k \in DOMAIN t.args |-> SubstituteTerm(t.args[k], old, new)]]

\* Literal::Substitute
SubstituteLiteral(a, old, new) ==
    MakeLiteral(a.pos, SubstituteTerm(a.lhs, old, new), SubstituteTerm(a.rhs, old, new))

\* The literal a taken from the queue goes to the third branch although its
\* lhs is quasi-primitive: assert(!a.lhs().quasiprimitive()) is false.
LhsAssertionFails(F, a) ==
    /\ ~Flattened(a)
    /\ ~(IsFunction(a.rhs) /\ (~a.pos \/ \A b \in F.queue \ {a} : b.pos))
    /\ QuasiPrimitiveTerm(a.lhs)

\* One iteration of the loop of Atomic::Flatten with a the literal that
\* queue.begin() gave.  F holds the local variables; F.i is the next
\* variable of the symbol factory.
FlattenLiteral(F, a) ==
    LET queue == F.queue \ {a}
        Replace(old) ==
            LET known == old \in DOMAIN F.term_to_var
                new == IF known THEN F.term_to_var[old] ELSE TVar(F.i)
            IN  [F EXCEPT !.queue = queue \cup {SubstituteLiteral(a, old, new), Neq(new, old)},
                          !.term_to_var = IF known THEN @ ELSE @ @@ (old :> new),
                          !.vars = IF known THEN @ ELSE Append(@, new.id),
                          !.i = IF known THEN @ ELSE @ + 1]
        fargs == {k \in DOMAIN a.lhs.args : IsFunction(a.lhs.args[k])}
    IN  IF Flattened(a) THEN [F EXCEPT !.queue = queue, !.lits = @ \cup {a}]
        ELSE IF IsFunction(a.rhs) /\ (~a.pos \/ \A b \in queue : b.pos)
        THEN Replace(IF Arity(a.lhs) < Arity(a.rhs) THEN a.lhs ELSE a.rhs)
        ELSE IF fargs = {}
        THEN [F EXCEPT !.queue = queue,
                       !.broken = @ \cup {"!a.lhs().quasiprimitive()"}]
        ELSE [Replace(a.lhs.args[CHOOSE k \in fargs : \A j \in fargs : k <= j])
                 EXCEPT !.broken = @ \cup (IF QuasiPrimitiveTerm(a.lhs)
                                           THEN {"!a.lhs().quasiprimitive()"} ELSE {})]

\* What Atomic::Flatten returns once the queue is empty.
FlattenResult(F) ==
    LET inner == Not(Atomic(F.lits))
        RECURSIVE Quantify(_)
        Quantify(k) == IF k > Len(F.vars) THEN inner ELSE Exists(F.vars[k], Quantify(k + 1))
    IN  IF F.vars = <<>> THEN Atomic(F.c)
        ELSE IF F.add_double_negation THEN Quantify(1)
        ELSE Not(Quantify(1))

\* The names and function symbols of src/unnamed/part_000.
Jesus == 1

Mary == 2

Joe == 3

True == 4

fatherOf == 1

motherOf == 2

is_mortal == 3

Father == Fn(fatherOf, <<TName(Jesus)>>)

Mother == Fn(motherOf, <<TName(Jesus)>>)

Mortal(t) == Fn(is_mortal, <<t>>)

\* The clauses handed to Flatten: those of the script and variants of them.
FlattenClauses ==
    {{Eq(Father, TName(Joe)), Neq(Mortal(Father), TName(True))},
     {Eq(Mother, Father)},
     {Eq(Mortal(Mother), TName(True))},
     {Neq(Father, TVar(X)), Eq(TVar(X), TName(Joe)), Neq(Mortal(TVar(X)), TName(True))},
     {Eq(Mother, Father), Neq(Mother, TName(Mary))},
     {Neq(Father, TVar(X)), Neq(Mortal(TVar(X)), TName(True)), Neq(Mortal(Father), TName(True))},
     {Eq(Mortal(Fn(fatherOf, <<Mother>>)), TName(True)), Eq(Mortal(Mother), TName(True))}}

\* The ways the first loop of Flatten can fill term_to_var: for every lhs
\* of a literal t /= x of c, one of the variables x.
TermToVars(c) ==
    LET named == {a \in c : ~a.pos /\ IsFunction(a.lhs) /\ IsVariable(a.rhs)}
    IN  {tv \in [{a.lhs : a \in named} -> {a.rhs : a \in named}] :
            \A t \in DOMAIN tv : Neq(t, tv[t]) \in c}

\* Atomic::Flatten(nots, sf, tf) of Atomic(c), up to its while loop.
CallFlatten(c, nots) ==
    /\ status = "running"
    /\ run = Idle
    /\ nf.op = "none"
    /\ LET dn == nots % 2 = 1 /\ Cardinality(c) = 1
           c0 == IF dn THEN {FlipLiteral(a) : a \in c} ELSE c
       IN  \E tv \in TermToVars(c0) :
              run' = [op |-> "Flatten", n |-> nots, i |-> FirstFresh, r |-> "",
                      c |-> c, add_double_negation |-> dn, queue |-> c0,
                      term_to_var |-> tv, lits |-> {}, vars |-> <<>>, broken |-> {}]
    /\ UNCHANGED <<setup, saved_, NDEBUG, copies, pre_copy, kb, status, last, ctx, nf, caller, lela>>

\* Atomic::Flatten: one iteration of the while loop on whichever literal
\* queue.begin() gives, or the end of the loop, the two closing assertions
\* and the return.
StepFlatten ==
    /\ run.op = "Flatten"
    /\ IF run.queue # {}
       THEN \E a \in run.queue :
               IF ~NDEBUG /\ LhsAssertionFails(run, a)
               THEN /\ status' = "aborted"
                    /\ nf' = [op |-> "Flatten", c |-> run.c, nots |-> run.n,
                              end |-> "assert", r |-> Atomic(run.lits),
                              broken |-> {"!a.lhs().quasiprimitive()"}]
                    /\ run' = Idle
               ELSE /\ run' = FlattenLiteral(run, a)
                    /\ UNCHANGED <<status, nf>>
       ELSE LET short == Cardinality(run.lits) < Cardinality(run.c)
                rough == \E a \in run.lits : ~Flattened(a)
            IN  /\ run' = Idle
                /\ status' = IF ~NDEBUG /\ (short \/ rough) THEN "aborted" ELSE status
                /\ nf' = [op |-> "Flatten", c |-> run.c, nots |-> run.n,
                          end |-> IF ~NDEBUG /\ (short \/ rough) THEN "assert" ELSE "ok",
                          r |-> FlattenResult(run),
                          broken |-> run.broken
                                     \cup (IF short THEN {"lits.size() >= arg().size()"} ELSE {})
                                     \cup (IF rough THEN {"all_of(lits)"} ELSE {})]
    /\ last' = Call("Flatten", "")
    /\ UNCHANGED <<setup, saved_, NDEBUG, copies, pre_copy, kb, ctx, caller, lela>>

NextFlat ==
    \/ \E c \in FlattenClauses : \E nots \in {0, 1} : CallFlatten(c, nots)
    \/ StepFlatten

FlatSpec == Init /\ [][NextFlat]_vars /\ WF_vars(StepFlatten)

(***************************************************************************)
(* lela::Setup with its ancestors.  The setup constructed first is lela    *)
(* (object 0); the setups made by Spawn() are the objects 1, 2, ... of     *)
(* copies, each with the number of its parent in parent_.  A clause or     *)
(* unit index is global, counted from 0 as in the code.                    *)
(***************************************************************************)
MaxSpawned == 2

\* The objects: the first setup and the spawned ones.
Heap == [root |-> lela, spawned |-> copies]

Objects(H) == 0..Len(H.spawned)

Obj(H, s) == IF s = 0 THEN H.root ELSE H.spawned[s]

Put(H, s, obj) ==
    IF s = 0 THEN [H EXCEPT !.root = obj] ELSE [H EXCEPT !.spawned[s] = obj]

\* first_clause_, first_unit_: 0 without a parent (the member initialisers)
first_clause(H, s) == IF s = 0 THEN 0 ELSE Obj(H, s).first_clause_

last_clause(H, s) == first_clause(H, s) + Len(Obj(H, s).clauses_)

first_unit(H, s) == IF s = 0 THEN 0 ELSE Obj(H, s).first_unit_

last_unit(H, s) == first_unit(H, s) + Len(Obj(H, s).units_)

\* lela::Setup::clause(i): up the parents to the setup that stores i.
RECURSIVE clause(_, _, _)
clause(H, s, i) ==
    IF i < first_clause(H, s) THEN clause(H, Obj(H, s).parent_, i)
    ELSE Obj(H, s).clauses_[i - first_clause(H, s) + 1]

\* lela::Setup::unit(i)
RECURSIVE unit(_, _, _)
unit(H, s, i) ==
    IF i < first_unit(H, s) THEN unit(H, Obj(H, s).parent_, i)
    ELSE Obj(H, s).units_[i - first_unit(H, s) + 1]

\* The setup that stores clause i of s.
RECURSIVE Owner(_, _, _)
Owner(H, s, i) == IF i < first_clause(H, s) THEN Owner(H, Obj(H, s).parent_, i) ELSE s

\* Disable(i) that sets the bit in the setup that stores the clause.
DisableOwner(H, s, i) ==
    Put(H, Owner(H, s, i), [Obj(H, Owner(H, s, i)) EXCEPT !.del_ = @ \cup {i}])

\* lela::Setup::Disable(i): del_[i] = true in this setup's own bit list.
Disable(H, s, i) == Put(H, s, [Obj(H, s) EXCEPT !.del_ = @ \cup {i}])

\* lela::Setup::enabled(i)
enabled(H, s, i) == i \notin Obj(H, s).del_

\* lela::Setup::clauses(): the enabled indices of 0 .. last_clause() - 1.
clauses(H, s) == {i \in 0..(last_clause(H, s) - 1) : enabled(H, s, i)}

\* lela::Setup::units()
units(H, s) == {unit(H, s, u) : u \in 0..(last_unit(H, s) - 1)}

\* lela::Setup::Subsumes(c) of setup s
SetupSubsumes(H, s, c) ==
    IF Obj(H, s).contains_empty_clause_ THEN TRUE
    ELSE IF c = {} THEN Obj(H, s).contains_empty_clause_
    ELSE \E i \in clauses(H, s) : ClauseSubsumes(clause(H, s, i), c)

\* lela::Setup::LocallyConsistent(t): no two literals of t in the enabled
\* clauses are complementary.
SetupLocallyConsistent(H, s, t) ==
    LET lits == {a \in UNION {clause(H, s, i) : i \in clauses(H, s)} : a.lhs = t}
    IN  \A a, b \in lits : ~Complementary(a, b)

\* lela::Setup::Consistent() of setup s
SetupConsistent(H, s) ==
    /\ ~Obj(H, s).contains_empty_clause_
    /\ \A t \in {a.lhs : a \in UNION {clause(H, s, i) : i \in clauses(H, s)}} :
          SetupLocallyConsistent(H, s, t)

\* lela::Setup::Setup(const Setup* parent): the bit list and the flag are
\* copied, the lists start empty at the parent's last indices.
Spawn(H, s) ==
    [parent_ |-> s,
     contains_empty_clause_ |-> Obj(H, s).contains_empty_clause_,
     clauses_ |-> <<>>, first_clause_ |-> last_clause(H, s),
     unprocessed_clauses_ |-> <<>>,
     del_ |-> Obj(H, s).del_,
     units_ |-> <<>>, first_unit_ |-> last_unit(H, s)]

\* spawned_ of setup s (kept in builds with assertions): Spawn() was called
\* on it.
spawned(H, s) == \E k \in 1..Len(H.spawned) : H.spawned[k].parent_ = s

\* lela::Setup::RemoveSubsumed(i) of setup s
RECURSIVE SetupRemoveSubsumed(_, _, _, _)
SetupRemoveSubsumed(H, s, i, j) ==
    IF j >= last_clause(H, s) THEN H
    ELSE IF enabled(H, s, j) /\ i # j /\ ClauseSubsumes(clause(H, s, i), clause(H, s, j))
    THEN SetupRemoveSubsumed(Disable(H, s, j), s, i, j + 1)
    ELSE SetupRemoveSubsumed(H, s, i, j + 1)

\* The loop over clauses() at the end of ProcessClauses for the new unit a.
RECURSIVE SetupShortened(_, _, _, _)
SetupShortened(H, s, a, j) ==
    IF j >= last_clause(H, s) THEN <<>>
    ELSE (IF enabled(H, s, j) /\ PropagateUnits(clause(H, s, j), {a}) # clause(H, s, j)
          THEN <<PropagateUnits(clause(H, s, j), {a})>> ELSE <<>>)
             \o SetupShortened(H, s, a, j + 1)

\* lela::Setup::ProcessClauses of setup s, to the end of its loop.
RECURSIVE ProcessClauses(_, _)
ProcessClauses(H, s) ==
    IF Obj(H, s).unprocessed_clauses_ = <<>> THEN H
    ELSE LET L  == Obj(H, s)
             c0 == L.unprocessed_clauses_[Len(L.unprocessed_clauses_)]
             H1 == Put(H, s, [L EXCEPT !.unprocessed_clauses_ = PopBack(@)])
             c  == PropagateUnits(c0, units(H1, s))
             H2 == Put(H1, s, [Obj(H1, s) EXCEPT
                                  !.clauses_ = Append(@, c),
                                  !.contains_empty_clause_ = @ \/ (c = {})])
             H3 == SetupRemoveSubsumed(H2, s, last_clause(H2, s) - 1, 0)
             H4 == Put(H3, s, [Obj(H3, s) EXCEPT
                                  !.units_ = Append(@, First(c)),
                                  !.unprocessed_clauses_ =
                                      @ \o SetupShortened(H3, s, First(c), 0)])
         IN  IF SetupSubsumes(H1, s, c0) THEN ProcessClauses(H1, s)
             ELSE IF Cardinality(c) = 1 THEN ProcessClauses(H4, s)
             ELSE ProcessClauses(H3, s)

\* lela::Setup::AddClause(c) of setup s
SetupAddClause(H, s, c) ==
    ProcessClauses(Put(H, s, [Obj(H, s) EXCEPT !.unprocessed_clauses_ = Append(@, c)]), s)

\* The clauses added to the setups: units, clauses they shorten or subsume,
\* and f = 1 v f /= 2, in which one literal subsumes the other.
SetupInputs ==
    {{Lit(1, FALSE, T)}, {Lit(FTerm, TRUE, 1)}, {Lit(FTerm, FALSE, 1)},
     {Lit(1, TRUE, T), Lit(2, TRUE, T)},
     {Lit(1, TRUE, T), Lit(FTerm, TRUE, 2)},
     {Lit(FTerm, TRUE, 1), Lit(FTerm, FALSE, 2)}}

\* s.AddClause(c), for a setup that has not been spawned from (the
\* documented contract, asserted in builds with assertions).
DoSetupAddClause(s, c) ==
    /\ status = "running"
    /\ s \in Objects(Heap)
    /\ ~spawned(Heap, s)
    /\ last_clause(Heap, s) < MaxStored
    /\ LET H == SetupAddClause(Heap, s, c)
       IN  lela' = H.root /\ copies' = H.spawned
    /\ last' = [Call("lela::AddClause", "") EXCEPT !.changed = {s}]
    /\ UNCHANGED <<setup, saved_, NDEBUG, pre_copy, kb, status, ctx, nf, caller, run>>

\* s.Spawn()
DoSpawn(s) ==
    /\ status = "running"
    /\ s \in Objects(Heap)
    /\ Len(copies) < MaxSpawned
    /\ copies' = Append(copies, Spawn(Heap, s))
    /\ last' = Call("Spawn", "")
    /\ UNCHANGED <<setup, saved_, NDEBUG, pre_copy, kb, status, ctx, nf, caller, run, lela>>

NextSpawn ==
    \/ \E s \in 0..MaxSpawned : \E c \in SetupInputs : DoSetupAddClause(s, c)
    \/ \E s \in 0..MaxSpawned : DoSpawn(s)

SpawnSpec == Init /\ [][NextSpawn]_vars

(***************************************************************************)
(* Formula::operator== and Formula::Clone, class by class.                 *)
(***************************************************************************)
\* operator== of Atomic, Not, Or, Exists, Know, Cons, Bel and Guarantee:
\* the types, and then the members that the class compares.
RECURSIVE FormulaEq(_, _)
FormulaEq(this, that) ==
    /\ this.type = that.type
    /\ CASE this.type = "Atomic" -> this.c = that.c
         [] this.type = "Or" ->
                FormulaEq(this.lhs, that.lhs) /\ FormulaEq(this.rhs, that.rhs)
         [] this.type = "Exists" -> this.x = that.x /\ FormulaEq(this.arg, that.arg)
         [] this.type = "Bel" ->
                /\ FormulaEq(this.ante, that.ante)
                /\ FormulaEq(this.not_ante_or_conse, that.not_ante_or_conse)
         [] OTHER -> FormulaEq(this.arg, that.arg)

\* Clone of each class: the factory, handed the members and the clones of
\* the sub-formulas.
RECURSIVE FormulaClone(_)
FormulaClone(phi) ==
    CASE phi.type = "Atomic" -> Atomic(phi.c)
      [] phi.type = "Not" -> Not(FormulaClone(phi.arg))
      [] phi.type = "Or" -> Or(FormulaClone(phi.lhs), FormulaClone(phi.rhs))
      [] phi.type = "Exists" -> Exists(phi.x, FormulaClone(phi.arg))
      [] phi.type = "Know" -> KnowF(phi.k, FormulaClone(phi.arg))
      [] phi.type = "Cons" -> ConsF(phi.k, FormulaClone(phi.arg))
      [] phi.type = "Bel" ->
            BelOf(phi.k, phi.l, FormulaClone(phi.ante), FormulaClone(phi.conse),
                  FormulaClone(phi.not_ante_or_conse))
      [] OTHER -> Guarantee(FormulaClone(phi.arg))

\* The sub-formulas of the formulas that are compared.
EqParts ==
    {Atomic({P(Var(X))}), Not(Atomic({P(Var(X))})), Exists(X, Atomic({Q(Var(X))}))}

Comparands ==
    EqParts
        \cup {KnowF(k, a) : k \in {0, 1}, a \in EqParts}
        \cup {ConsF(k, a) : k \in {0, 1}, a \in EqParts}
        \cup {Bel(k, l, a, c) : k \in {0, 1}, l \in {0, 1}, a \in EqParts, c \in EqParts}
        \cup {Guarantee(a) : a \in EqParts}

\* phi == that, and phi == *phi.Clone().
DoCompare(phi, that) ==
    /\ status = "running"
    /\ nf.op = "none"
    /\ nf' = [op |-> "==", phi |-> phi, that |-> that, clone |-> FormulaClone(phi),
              eq |-> FormulaEq(phi, that),
              eq_clone |-> FormulaEq(phi, FormulaClone(phi))]
    /\ last' = Call("operator==", "")
    /\ UNCHANGED <<setup, saved_, NDEBUG, copies, pre_copy, kb, status, ctx, caller, run, lela>>

NextEq == \E phi \in Comparands : \E that \in Comparands : DoCompare(phi, that)

EqSpec == Init /\ [][NextEq]_vars

(***************************************************************************)
(* vector_t: a resizing array of pointers.  The struct is that of the      *)
(* header; the functions are those the header declares and documents.      *)
(***************************************************************************)
\* The longest vector handed to vector_cmp and vector_insert.
MaxVec == 2

\* Pointers, two bytes wide here, least significant byte first.
Pointers == {1, 2, 256, 257}

PointerBytes(p) == <<p % 256, p \div 256>>

NullPointer == 0

\* vector_from_array(array, n)
vector_from_array(array) == [array |-> array, capacity |-> Len(array), size |-> Len(array)]

\* vector_size
vector_size(vec) == vec.size

\* vector_get(vec, index), indices from 0.
vector_get(vec, index) == vec.array[index + 1]

\* memcmp on two elements: the difference of the first bytes that differ.
ElemMemcmp(p, q) ==
    LET a == PointerBytes(p)
        b == PointerBytes(q)
    IN  IF a[1] # b[1] THEN a[1] - b[1] ELSE a[2] - b[2]

\* A compar of the caller: by the value pointed to, here the pointer's own.
ByValue(p, q) == p - q

Compar(compar, p, q) == IF compar = "NULL" THEN ElemMemcmp(p, q) ELSE ByValue(p, q)

RECURSIVE vector_cmp_from(_, _, _, _)
vector_cmp_from(vec1, vec2, compar, i) ==
    IF i >= vec1.size THEN 0
    ELSE LET c == Compar(compar, vector_get(vec1, i), vector_get(vec2, i))
         IN  IF c # 0 THEN c ELSE vector_cmp_from(vec1, vec2, compar, i + 1)

\* vector_cmp that compares the elements before the sizes.
vector_cmp_elementwise(vec1, vec2, compar) ==
    LET n == IF vec1.size < vec2.size THEN vec1.size ELSE vec2.size
        c == vector_cmp_from([vec1 EXCEPT !.size = n], vec2, compar, 0)
    IN  IF c # 0 THEN c ELSE vec1.size - vec2.size

\* vector_cmp(vec1, vec2, compar)
vector_cmp(vec1, vec2, compar) ==
    IF vec1.size # vec2.size THEN vec1.size - vec2.size
    ELSE vector_cmp_from(vec1, vec2, compar, 0)

\* The capacity doubles when it is exhausted.
vector_grow(vec) ==
    IF vec.size < vec.capacity THEN vec
    ELSE LET n == IF vec.capacity = 0 THEN 1 ELSE 2 * vec.capacity
         IN  [vec EXCEPT !.capacity = n,
                         !.array = [i \in 1..n |-> IF i <= vec.capacity THEN vec.array[i]
                                                   ELSE NullPointer]]

\* vector_insert(vec, index, elem): the elements from index on move up by
\* one, elem goes to index.
vector_insert(vec, index, elem) ==
    LET v == vector_grow(vec)
    IN  [v EXCEPT !.size = @ + 1,
                  !.array = [i \in 1..v.capacity |->
                                IF i <= index THEN v.array[i]
                                ELSE IF i = index + 1 THEN elem
                                ELSE IF i <= v.size + 1 THEN v.array[i - 1]
                                ELSE v.array[i]]]

RECURSIVE Arrays(_)
Arrays(n) ==
    IF n = 0 THEN {<<>>}
    ELSE Arrays(n - 1) \cup {Append(a, p) : a \in {b \in Arrays(n - 1) : Len(b) = n - 1},
                                           p \in Pointers}

Vectors == {vector_from_array(a) : a \in Arrays(MaxVec)}

DoVectorCmp(vec1, vec2, compar) ==
    /\ status = "running"
    /\ nf.op = "none"
    /\ nf' = [op |-> "vector_cmp", vec1 |-> vec1, vec2 |-> vec2, compar |-> compar,
              r |-> vector_cmp(vec1, vec2, compar)]
    /\ last' = Call("vector_cmp", "")
    /\ UNCHANGED <<setup, saved_, NDEBUG, copies, pre_copy, kb, status, ctx, caller, run, lela>>

DoVectorInsert(vec, index, elem) ==
    /\ status = "running"
    /\ nf.op = "none"
    /\ nf' = [op |-> "vector_insert", before |-> vec, index |-> index, elem |-> elem,
              vec |-> vector_insert(vec, index, elem)]
    /\ last' = Call("vector_insert", "")
    /\ UNCHANGED <<setup, saved_, NDEBUG, copies, pre_copy, kb, status, ctx, caller, run, lela>>

NextVec ==
    \/ \E vec1 \in Vectors : \E vec2 \in Vectors : \E compar \in {"NULL", "compar"} :
           DoVectorCmp(vec1, vec2, compar)
    \/ \E vec \in Vectors : \E index \in 0..vector_size(vec) : \E elem \in Pointers :
           DoVectorInsert(vec, index, elem)

VecSpec == Init /\ [][NextVec]_vars

(***************************************************************************)
(* Properties.                                                             *)
(***************************************************************************)
\* A step that destroys the innermost live handle.
Restoring == Len(copies') < Len(copies)

\* The setup as it was when the handle being destroyed was made.
PreCopy == pre_copy[Len(pre_copy)]

\* C1, as stated: after a ShallowCopy handle is dropped the parent Setup is
\* identical to its state before the copy was made.
C1_ParentIdentical == [][Restoring => setup' = PreCopy]_vars

\* C1, amended: after a ShallowCopy handle is dropped the parent has the
\* empty_clause flag, the unit vector, the unit hash set, the sealed prefix
\* and the clause vector it had before the copy was made; only the watched
\* literal pairs of the stored clauses may differ.
C1_ParentRestored ==
    [][Restoring =>
          /\ setup'.empty_clause_ = PreCopy.empty_clause_
          /\ setup'.vec_ = PreCopy.vec_
          /\ setup'.set_ = PreCopy.set_
          /\ setup'.n_orig_ = PreCopy.n_orig_
          /\ setup'.clauses_ = PreCopy.clauses_]_vars

\* C1 witness: a handle was dropped after AddUnit calls through it had
\* added units and derived the empty clause.
C1_Witness ==
    /\ last.op = "Restore"
    /\ {"units", "empty_clause"} \subseteq last.changed

\* C2, as stated: after AddClause, no stored non-unit clause can be shrunk
\* (or discarded) by propagating a unit of the unit set through it.
C2_PropagationClosed ==
    (status = "running" /\ last.op = "AddClause" /\ copies = <<>>) =>
        \A i \in 1..Len(setup.clauses_) : \A u \in Range(setup.vec_) :
            PropagateUnit(setup.clauses_[i], u) = setup.clauses_[i]

\* Strict subsumption between two clauses of the setup.
StrictlySubsumes(c, d) == ClauseSubsumes(c, d) /\ ~ClauseSubsumes(d, c)

\* C3, as stated: after Minimize returns, no clause of the setup (unit or
\* non-unit) strictly subsumes another clause of the setup.
C3_SubsumptionMinimal ==
    (status = "running" /\ last.op = "Minimize" /\ copies = <<>>) =>
        LET cs == SetupClauses(setup)
        IN  \A i, j \in 1..Len(cs) : ~StrictlySubsumes(cs[i], cs[j])

\* C4, as stated: in a build with assertions at most one ShallowCopy is
\* alive, and while one is alive the counter saved_ that Restore checks is
\* positive (so that create-then-drop trips no assertion).
C4_OneLiveCopy ==
    ~NDEBUG => /\ Len(copies) <= 1
               /\ copies # <<>> => saved_ > 0
               /\ last.op = "Restore" => status # "aborted"

\* C5, as stated: in a build with assertions, a call of AddClause or
\* Minimize while a ShallowCopy is alive is rejected by assert(saved_ == 0).
C5_MutationRejected ==
    (~NDEBUG /\ copies # <<>> /\ last.op \in {"AddClause", "Minimize"}) =>
        (status = "aborted" /\ last.r = "assert saved_ == 0")

\* The clauses a query may ask Subsumes about: the empty clause and every
\* clause of one or two literals over the terms the setup mentions.
QueryClauses == {d \in SUBSET {a \in Literals : a.lhs \in {1, FTerm}} : Cardinality(d) <= 2}

\* The term sets a query may ask LocallyConsistent about.
QueryTerms == {{1}, {FTerm}, {1, FTerm}}

\* C6: when a query has dropped its shallow copy, the setup answers every
\* Subsumes, Consistent and LocallyConsistent call as it did before the
\* copy was made.
C6_QueriesReentrant ==
    [][Restoring =>
          /\ \A d \in QueryClauses : Subsumes(setup', d) = Subsumes(PreCopy, d)
          /\ Consistent(setup') = Consistent(PreCopy)
          /\ \A ts \in QueryTerms :
                LocallyConsistent(setup', ts) = LocallyConsistent(PreCopy, ts)]_vars

\* C6 witness: a query that added units through its copy, changed watched
\* literals and has dropped the copy; no copy is left alive.
C6_Witness ==
    /\ last.op = "Restore"
    /\ copies = <<>>
    /\ {"units", "watched"} \subseteq last.changed

\* C7: for every knowledge base, every query and every level k below the
\* bound, Know<k> entails Know<k+1>.
C7_KnowMonotone ==
    status = "running" =>
        \A q \in Queries : \A k \in 0..(MaxK - 1) :
            Know(setup, k, q) => Know(setup, k + 1, q)

\* C7 witness: over a knowledge base with p(m) = T v p(n) = T, the
\* existential is known at levels 1 and 2 but not at level 0, and another
\* query is known at level 0 already.
C7_Witness ==
    /\ status = "running"
    /\ last.op = "Query"
    /\ {Lit(1, TRUE, T), Lit(2, TRUE, T)} \in kb
    /\ ~Know(setup, 0, ExP) /\ Know(setup, 1, ExP) /\ Know(setup, 2, ExP)
    /\ \E q \in Queries : Know(setup, 0, q) /\ Know(setup, 1, q) /\ ~setup.empty_clause_

\* C8, as stated: for every knowledge base, every query and every level k
\* below the bound, Cons<k+1> entails Cons<k>.
C8_ConsAntiMonotone ==
    status = "running" =>
        \A q \in Queries : \A k \in 0..(MaxK - 1) :
            Cons(setup, k + 1, q) => Cons(setup, k, q)

\* C8, amended: consistency grows with the split level: Cons<k> entails
\* Cons<k+1>.
C8_ConsMonotone ==
    status = "running" =>
        \A q \in Queries : \A k \in 0..(MaxK - 1) :
            Cons(setup, k, q) => Cons(setup, k + 1, q)

\* C8 witness: the introspection script: with p(m) = T v p(n) = T in the
\* knowledge base, Cons<0>(Ex x. p(x) = T) is refuted and Cons<1> holds; and
\* a query that has terms to split on is consistent at levels 0, 1 and 2.
C8_Witness ==
    /\ status = "running"
    /\ last.op = "Query"
    /\ {Lit(1, TRUE, T), Lit(2, TRUE, T)} \in kb
    /\ ~Cons(setup, 0, ExP) /\ Cons(setup, 1, ExP)
    /\ \E q \in Queries : /\ SplitTerms(setup, q) # {}
                          /\ Cons(setup, 0, q) /\ Cons(setup, 1, q) /\ Cons(setup, 2, q)

\* The disjuncts of clause c are not individually derivable.
NotDerivable(S, c) == \A a \in c : ~Subsumes(S, {a})

\* The clauses a1 v ... v am (m >= 2) that say which name a term t equals.
ValueClauses(t) == {c \in kb : Cardinality(c) >= 2 /\ \A a \in c : a.lhs = t /\ a.pos}

\* C9: every clause added to the knowledge base is known at level 0; and
\* for a clause t = n1 v ... v t = nm (m >= 2) of the knowledge base whose
\* disjuncts are not individually derivable, Know<0>(Ex x. x = t) is false
\* and Know<1>(Ex x. x = t) is true.
C9_AddedClauseKnown ==
    status = "running" =>
        /\ \A c \in kb : Know(setup, 0, {c})
        /\ \A t \in Terms : \A c \in ValueClauses(t) :
              NotDerivable(setup, c) =>
                  ~Know(setup, 0, ExEq(t)) /\ Know(setup, 1, ExEq(t))

\* C9 witness: the father clause is in the knowledge base next to other
\* clauses, and none of its disjuncts is derivable.
C9_Witness ==
    /\ status = "running"
    /\ Cardinality(kb) >= 3
    /\ \E c \in ValueClauses(FTerm) : NotDerivable(setup, c)

\* The knowledge base of the introspection script: p(m) = T v p(n) = T.
DisjunctionKb == kb = {{Lit(1, TRUE, T), Lit(2, TRUE, T)}}

\* C10: with KB = {p(m) = T v p(n) = T}: Know<1>(Ex x. p(x) = T) is true,
\* Ex x. Know<1>(p(x) = T) is false, Ex x. Cons<1>(p(x) = T) is true, and
\* for every name x, Know<1>(p(x) = T) is false and Cons<1>(p(x) = T) true.
C10_QuantifyingIn ==
    (status = "running" /\ DisjunctionKb) =>
        /\ Know(setup, 1, ExP)
        /\ ~\E x \in PTerms : Know(setup, 1, {{Lit(x, TRUE, T)}})
        /\ \E x \in PTerms : Cons(setup, 1, {{Lit(x, TRUE, T)}})
        /\ \A x \in PTerms : /\ ~Know(setup, 1, {{Lit(x, TRUE, T)}})
                             /\ Cons(setup, 1, {{Lit(x, TRUE, T)}})

\* C10 witness: the script's knowledge base has answered Know<1> of the
\* existential with yes.
C10_Witness ==
    /\ status = "running"
    /\ DisjunctionKb
    /\ last = Call("Query", "yes")
    /\ Know(setup, 1, ExP)

\* C11: for every query of the scripts, at every level, the verdict of
\* G phi equals the verdict of phi when the name pool holds a placeholder
\* of each sort.
C11_GuaranteeAgrees ==
    status = "running" =>
        \A modal \in {"K", "M"} : \A k \in 0..MaxK : \A q \in Queries :
            EntailsG(setup, modal, k, q) = Entails(setup, modal, k, q)

\* C11 witness: G Know<1>(Ex x. p(x) = T) was answered yes over the
\* introspection script's knowledge base, where Know<0> of it is refuted.
C11_Witness ==
    /\ status = "running"
    /\ last = Call("QueryG", "yes")
    /\ {Lit(1, TRUE, T), Lit(2, TRUE, T)} \in kb
    /\ EntailsG(setup, "K", 1, ExP) /\ ~EntailsG(setup, "K", 0, ExP)

\* The setup right after AddClause(c), before KnowledgeBase::Add minimizes.
Poured(c) == AddClause(setup, c).S

\* Ex falso in setup S.
ExFalso(S) ==
    S.empty_clause_ =>
        /\ \A d \in QueryClauses : Subsumes(S, d)
        /\ ~Consistent(S)
        /\ \A k \in 0..MaxK : /\ \A q \in Queries : Know(S, k, q)
                              /\ ~ConsTrue(S, k)

\* C12: once the setup contains the empty clause, before or after it is
\* minimized, Subsumes(d) is true for every clause d, Consistent() is false,
\* every Know<k> query is true and Cons<k>(True) is false.
C12_ExFalso ==
    status = "running" => ExFalso(setup) /\ \A c \in KbClauses : ExFalso(Poured(c))

\* C12 witness: a unit and its complement were added; the setup holds the
\* empty clause.
C12_Witness ==
    /\ status = "running"
    /\ {{Lit(1, TRUE, T)}, {Lit(1, FALSE, T)}} \subseteq kb
    /\ setup.empty_clause_
    /\ \E c \in KbClauses : Poured(c).empty_clause_ /\ Poured(c).vec_ # <<>>

\* The quantified variables of phi, from left to right.
RECURSIVE Binders(_)
Binders(phi) ==
    CASE phi.type = "Atomic" -> <<>>
      [] phi.type = "Or" -> Binders(phi.lhs) \o Binders(phi.rhs)
      [] phi.type = "Exists" -> <<phi.x>> \o Binders(phi.arg)
      [] OTHER -> Binders(phi.arg)

\* Every bound variable is bound by exactly one quantifier and none occurs
\* free.
Rectified(phi) ==
    /\ \A i, j \in DOMAIN Binders(phi) : Binders(phi)[i] = Binders(phi)[j] => i = j
    /\ Range(Binders(phi)) \cap FreeVars(phi) = {}

Bind(m, x, y) == [v \in DOMAIN m \cup {x} |-> IF v = x THEN y ELSE m[v]]

AsTerms(m) == [v \in DOMAIN m |-> Var(m[v])]

\* phi and psi differ only in the names of their bound variables: m maps
\* the variables bound around phi to those bound around psi, mi back.
RECURSIVE AlphaEqRec(_, _, _, _)
AlphaEqRec(phi, psi, m, mi) ==
    /\ phi.type = psi.type
    /\ CASE phi.type = "Atomic" ->
               /\ SubstClause(phi.c, AsTerms(m)) = psi.c
               /\ SubstClause(psi.c, AsTerms(mi)) = phi.c
         [] phi.type = "Or" ->
               AlphaEqRec(phi.lhs, psi.lhs, m, mi) /\ AlphaEqRec(phi.rhs, psi.rhs, m, mi)
         [] phi.type = "Exists" ->
               AlphaEqRec(phi.arg, psi.arg, Bind(m, phi.x, psi.x), Bind(mi, psi.x, phi.x))
         [] phi.type \in {"Know", "Cons"} ->
               phi.k = psi.k /\ AlphaEqRec(phi.arg, psi.arg, m, mi)
         [] OTHER -> AlphaEqRec(phi.arg, psi.arg, m, mi)

AlphaEq(phi, psi) == AlphaEqRec(phi, psi, <<>>, <<>>)

\* C13: NF produces a rectified formula: after Rectify the formula is
\* alpha-equivalent to phi, and in it and in NF(phi) every bound variable is
\* bound by exactly one quantifier and no bound variable also occurs free.
C13_Rectified ==
    nf.op = "NF" =>
        /\ Rectified(nf.rect)
        /\ AlphaEq(nf.phi, nf.rect)
        /\ Rectified(nf.r)

\* The names the quantifiers range over, and the worlds over them: a world
\* gives each primitive term p(n), q(n) its value.
Pool == {1, 2}

Worlds == [{"p", "q"} \X Pool -> BoolNames]

Val(t, env) == IF t.var THEN env[t.id] ELSE t.id

LitHolds(w, env, a) == (w[<<a.sym, Val(a.arg, env)>>] = Val(a.rhs, env)) = a.pos

\* The truth of an objective formula in world w under the assignment env.
RECURSIVE Holds(_, _, _)
Holds(w, env, phi) ==
    CASE phi.type = "Atomic" -> \E a \in phi.c : LitHolds(w, env, a)
      [] phi.type = "Not" -> ~Holds(w, env, phi.arg)
      [] phi.type = "Or" -> Holds(w, env, phi.lhs) \/ Holds(w, env, phi.rhs)
      [] phi.type = "Exists" -> \E n \in Pool : Holds(w, Bind(env, phi.x, n), phi.arg)
      [] OTHER -> Holds(w, env, phi.arg)

Equivalent(phi, psi) ==
    \A w \in Worlds : \A env \in [FreeVars(phi) \cup FreeVars(psi) -> Pool] :
        Holds(w, env, phi) = Holds(w, env, psi)

\* C14: NF soundness: NF(phi, distribute) and phi have the same truth value
\* in every world over the name pool, under every assignment of the free
\* variables (checked for the objective phi).
C14_NFSound == nf.op = "NF" /\ Objective(nf.phi) => Equivalent(nf.phi, nf.r)

\* C15: NF idempotence: NF(NF(phi, d), d) equals NF(phi, d) up to the
\* renaming of bound variables.
C15_NFIdempotent == nf.op = "NF" => AlphaEq(nf.again, nf.r)

\* A literal of the setup as a literal of a formula, and back.
FLitOf(a) ==
    IF a.lhs = FTerm THEN FLit("f", NoArg, a.pos, Name(a.rhs))
    ELSE FLit("p", Name(a.lhs), a.pos, Name(a.rhs))

SetupLit(a) == Lit(IF a.sym = "f" THEN FTerm ELSE a.arg.id, a.pos, a.rhs.id)

\* The truth of a ground subjective formula in the setup S: the modal
\* operators over a clause are queries, the connectives are classical.
RECURSIVE Truth(_, _)
Truth(S, phi) ==
    CASE phi.type = "Not" -> ~Truth(S, phi.arg)
      [] phi.type = "Or" -> Truth(S, phi.lhs) \/ Truth(S, phi.rhs)
      [] phi.type = "Know" -> Know(S, phi.k, {{SetupLit(a) : a \in phi.arg.c}})
      [] OTHER -> Cons(S, phi.k, {{SetupLit(a) : a \in phi.arg.c}})

\* Know<k>(~a) for a literal a of the setup.
KnowNot(S, k, a) == Know(S, k, {{Flip(a)}})

\* The clauses a1 v ... v am, m >= 2, the modal operators are applied to.
DistClauses ==
    {{Lit(1, TRUE, T), Lit(2, TRUE, T)},
     {Lit(1, TRUE, T), Lit(FTerm, TRUE, 1)},
     {Lit(1, FALSE, T), Lit(2, TRUE, T)},
     {Lit(FTerm, TRUE, 1), Lit(FTerm, TRUE, 2)},
     {Lit(1, TRUE, T), Lit(2, TRUE, T), Lit(3, TRUE, T)}}

NegatedClause(c) == Not(Atomic({FLitOf(a) : a \in c}))

\* C16: with distribute = true, Know<k>(~(a1 v ... v am)), m >= 2, normalizes
\* to a formula that is true exactly when Know<k>(~a1), ..., Know<k>(~am) are
\* all true.
C16_DistK ==
    status = "running" =>
        \A k \in 0..MaxK : \A c \in DistClauses :
            Truth(setup, NF(KnowF(k, NegatedClause(c)), TRUE, FirstFresh).phi)
                = (\A a \in c : KnowNot(setup, k, a))

\* The disjuncts of a disjunction.
RECURSIVE Disjuncts(_)
Disjuncts(phi) ==
    IF phi.type = "Or" THEN Disjuncts(phi.lhs) \cup Disjuncts(phi.rhs) ELSE {phi}

\* C17: with distribute = true, Cons<k>(c) for c = a1 v ... v am, m >= 2, is
\* rewritten to the disjunction of one Know<k>(~ai)-shaped formula per
\* literal, and the rewritten formula has the truth value of ~Know<k>(~c).
C17_DistM ==
    status = "running" =>
        \A k \in 0..MaxK : \A c \in DistClauses :
            LET r == NF(ConsF(k, Atomic({FLitOf(a) : a \in c})), TRUE, FirstFresh).phi
            IN  /\ Disjuncts(r) = {KnowF(k, Atomic({FLitOf(Flip(a))})) : a \in c}
                /\ Truth(setup, r) = ~(\A a \in c : KnowNot(setup, k, a))

\* The calls that register a symbol with a sort.
SymbolOps == {"RegisterVariable", "RegisterName", "RegisterFunction"}

RegisterOps == SymbolOps \cup {"RegisterSort", "RegisterMetaVariable"}

\* C18: registering a sort, name, variable, function or meta-variable under
\* an id already registered for that kind throws and leaves registry and
\* symbol factory unchanged, and registering a name, variable or function
\* with an unregistered sort id throws instead of creating the symbol.
C18_RejectedSynchronously ==
    [][/\ last'.op \in RegisterOps /\ Registered(ctx[RegistryOf(last'.op)], last'.id)
            => last'.r = "throw" /\ ctx' = ctx
       /\ last'.op \in SymbolOps /\ ~Registered(ctx.sorts_, last'.sort_id)
            => last'.r = "throw" /\ ctx' = ctx]_vars

\* C19: LookupFormula(id) returns a formula equal to the argument of the
\* most recent RegisterFormula(id, .), whatever the caller did to its own
\* formula since.
C19_MostRecentClone ==
    status = "running" =>
        \A id \in DOMAIN ctx.formulas_ :
            /\ ctx.formulas_[id] \in DOMAIN ctx.heap
            /\ LookupFormula(ctx, id) = caller.given[id]

\* An id was rebound, and the caller has since changed the formula it had
\* registered last.
C19_Witness ==
    /\ status = "running"
    /\ last.op = "SubstituteFree"
    /\ \E id \in caller.rebound :
          /\ caller.from[id] = last.id
          /\ ctx.heap[caller.from[id]] # caller.given[id]
          /\ LookupFormula(ctx, id) = caller.given[id]

\* C20: every call of AddClause and of Minimize returns: the unit
\* propagation loop of AddUnit, the two loops of Minimize and the work list
\* of ProcessClauses come to an end.
C20_Terminates == (run.op # "none") ~> (run.op = "none")

\* A call of lela's AddClause has returned after its work list derived a
\* unit, shortened a clause with it and removed subsumed clauses.
C20_Witness ==
    /\ run = Idle
    /\ last = Call("lela::AddClause", "")
    /\ Len(lela.units_) >= 2
    /\ Len(lela.clauses_) > MaxStored
    /\ lela.del_ # {}
    /\ lela.unprocessed_clauses_ = <<>>

\* What Units::Add(a) can return, its two loops followed element by
\* element: the sealed units with a's lhs in the order of the vector, each
\* tested for Complementary and then for Subsumes, then the units of a's
\* bucket of set_ in whatever order the hash set iterates.
UnitsAddOutcomes(S, a) ==
    LET J    == {j \in 1..S.n_orig_ : S.vec_[j].lhs = a.lhs}
        hits == {j \in J : Complementary(a, S.vec_[j]) \/ LitSubsumes(S.vec_[j], a)}
        j0   == CHOOSE j \in hits : \A k \in hits : j <= k
        B    == {u \in S.set_ : LhsHash(u.lhs) = LhsHash(a.lhs)}
        firsts == {u \in B : Complementary(a, u) \/ LitSubsumes(u, a)}
    IN  IF hits # {}
        THEN {IF Complementary(a, S.vec_[j0]) THEN "kInconsistent" ELSE "kSubsumed"}
        ELSE IF firsts # {}
        THEN {IF Complementary(a, u) THEN "kInconsistent" ELSE "kSubsumed" : u \in firsts}
        ELSE {"kOK"}

\* The classification the claim states, against every stored unit.
Classified(S, a) ==
    IF \E u \in Range(S.vec_) : Complementary(a, u) THEN "kInconsistent"
    ELSE IF \E u \in Range(S.vec_) : LitSubsumes(u, a) THEN "kSubsumed"
    ELSE "kOK"

\* The sealed units are sorted and without duplicates, as lower_bound needs.
SealedSorted(S) ==
    /\ S.n_orig_ <= Len(S.vec_)
    /\ \A i, j \in 1..S.n_orig_ : i < j => LitKey(S.vec_[i]) < LitKey(S.vec_[j])

\* C21: in every state of a run, for every literal a, Units::Add(a) returns
\* kInconsistent iff a stored unit is complementary to a, otherwise
\* kSubsumed iff a stored unit subsumes a, otherwise kOK with a appended to
\* the vector and inserted into the set; on kInconsistent and kSubsumed the
\* unit store is left as it was.
C21_AddClassifies ==
    status = "running" =>
        /\ SealedSorted(setup)
        /\ \A a \in Literals :
              /\ UnitsAddOutcomes(setup, a) = {Classified(setup, a)}
              /\ UnitsAddResult(setup, a) = Classified(setup, a)
              /\ IF Classified(setup, a) = "kOK"
                 THEN /\ UnitsAdd(setup, a).vec_ = Append(setup.vec_, a)
                      /\ UnitsAdd(setup, a).set_ = setup.set_ \cup {a}
                      /\ a \notin setup.set_
                 ELSE UnitsAdd(setup, a) = setup

\* Through a shallow copy a unit was added to a setup that has sealed and
\* unsealed units; of the literals that Add would now reject, one is
\* complementary to a sealed unit, one is subsumed by an unsealed unit.
C21_Witness ==
    /\ status = "running"
    /\ last.op = "AddUnit"
    /\ setup.n_orig_ > 0
    /\ setup.set_ # {}
    /\ \E a \in Literals : \E j \in 1..setup.n_orig_ :
          Complementary(a, setup.vec_[j]) /\ UnitsAddResult(setup, a) = "kInconsistent"
    /\ \E a \in Literals : \E u \in setup.set_ :
          LitSubsumes(u, a) /\ UnitsAddResult(setup, a) = "kSubsumed"

\* Subsumes without the watched-literal prefilter and without the shortcut
\* for positive units: the empty clause is in the setup, or a unit subsumes
\* d, or a stored clause with the current units propagated subsumes d.
SubsumesReference(S, d) ==
    \/ S.empty_clause_
    \/ \E u \in Range(S.vec_) : UnitSubsumes(u, d)
    \/ \E i \in 1..Len(S.clauses_) :
          ClauseSubsumes(PropagateUnits(S.clauses_[i], Range(S.vec_)), d)

\* The clauses Subsumes is asked about: every clause of at most three
\* literals over the terms the setup mentions.
SubsumesQueries == {d \in SUBSET {a \in Literals : a.lhs \in {1, FTerm}} : Cardinality(d) <= 3}

\* C22: in every state reached by AddClause, Minimize, AddUnit through a
\* shallow copy and Restore, Setup::Subsumes(d) is true iff the setup holds
\* the empty clause, or a unit subsumes d, or a stored clause with the
\* current units propagated through it subsumes d.
C22_SubsumesUnfiltered ==
    status = "running" =>
        \A d \in SubsumesQueries : Subsumes(setup, d) = SubsumesReference(setup, d)

\* AddUnit through a shallow copy has moved the watched pair of a stored
\* clause, and the clause as propagated subsumes a clause no unit subsumes.
C22_Witness ==
    /\ status = "running"
    /\ last.op = "AddUnit"
    /\ ~setup.empty_clause_
    /\ \E i \in 1..Len(setup.clauses_) :
          LET c == PropagateUnits(setup.clauses_[i], Range(setup.vec_))
          IN  /\ c # setup.clauses_[i]
              /\ setup.watched_[i] = Watched(First(c), Last(c))
              /\ setup.watched_[i] # Watched(First(setup.clauses_[i]), Last(setup.clauses_[i]))
              /\ Subsumes(setup, c)
              /\ ~\E u \in Range(setup.vec_) : UnitSubsumes(u, c)

\* A unit of the setup falsifies literal a.
Falsified(S, a) == \E u \in Range(S.vec_) : Complementary(a, u)

\* C23, as stated: in every reachable state the two watched literals of
\* every stored clause are distinct literals of the clause that no current
\* unit falsifies.
C23_WatchedInvariant ==
    status = "running" =>
        \A i \in 1..Len(setup.clauses_) :
            LET w == setup.watched_[i]
            IN  /\ w.a # w.b
                /\ {w.a, w.b} \subseteq setup.clauses_[i]
                /\ ~Falsified(setup, w.a)
                /\ ~Falsified(setup, w.b)

\* C23, amended: the two watched literals of every stored clause are
\* distinct literals of the clause; as long as the setup does not hold the
\* empty clause, they are unfalsified in every clause that still has two
\* unfalsified literals, no stored clause has all its literals falsified, and
\* the one literal left of a clause that became unit is subsumed by a unit
\* (AddUnit visited the clause and derived it).
C23_WatchedLive ==
    status = "running" =>
        \A i \in 1..Len(setup.clauses_) :
            LET w == setup.watched_[i]
                c == {a \in setup.clauses_[i] : ~Falsified(setup, a)}
            IN  /\ w.a # w.b
                /\ {w.a, w.b} \subseteq setup.clauses_[i]
                /\ ~setup.empty_clause_ =>
                      /\ c # {}
                      /\ Cardinality(c) >= 2 => {w.a, w.b} \subseteq c
                      /\ Cardinality(c) = 1 =>
                            \E u \in Range(setup.vec_) : LitSubsumes(u, First(c))

\* AddUnit has visited two stored clauses: one became unit and keeps a
\* falsified watched literal, the other lost a literal and had its watched
\* pair moved to literals that are left.
C23_Witness ==
    /\ status = "running"
    /\ ~setup.empty_clause_
    /\ last.op \in {"AddUnit", "AddClause"}
    /\ \E i, j \in 1..Len(setup.clauses_) :
          LET ci == {a \in setup.clauses_[i] : ~Falsified(setup, a)}
              cj == {a \in setup.clauses_[j] : ~Falsified(setup, a)}
          IN  /\ Cardinality(ci) = 1
              /\ Falsified(setup, setup.watched_[i].a) \/ Falsified(setup, setup.watched_[i].b)
              /\ Cardinality(cj) = 2
              /\ cj # setup.clauses_[j]
              /\ setup.watched_[j] = Watched(First(cj), Last(cj))

\* No two literals of the set are complementary.
NoComplementaryPair(lits) == \A a, b \in lits : ~Complementary(a, b)

\* The worlds over the terms the setup mentions: each term denotes a name
\* of its sort or a name that occurs nowhere (written 0).
SetupWorlds == [{1, FTerm} -> ObjNames \cup {0}]

LiteralTrue(w, a) == IF a.pos THEN w[a.lhs] = a.rhs ELSE w[a.lhs] # a.rhs

\* Some world satisfies the units and the stored clauses of the setup.
Satisfiable(S) ==
    \E w \in SetupWorlds :
        /\ \A t \in {1, FTerm} : w[t] \in NamesOf(t) \cup {0}
        /\ ~S.empty_clause_
        /\ \A u \in Range(S.vec_) : LiteralTrue(w, u)
        /\ \A c \in Range(S.clauses_) : \E a \in c : LiteralTrue(w, a)

\* C24: Consistent() is false whenever the setup holds the empty clause;
\* whenever it is true, no two literals of the unit-propagated clauses of
\* the setup are complementary and the clauses are satisfiable; and
\* LocallyConsistent(T) is that check on the clauses that mention a term of
\* T.
C24_ConsistentSound ==
    status = "running" =>
        /\ setup.empty_clause_ => ~Consistent(setup)
        /\ Consistent(setup) =>
              /\ NoComplementaryPair(UNION Range(SetupClauses(setup)))
              /\ Satisfiable(setup)
        /\ \A ts \in QueryTerms :
              LocallyConsistent(setup, ts) =
                  NoComplementaryPair(UNION {c \in Range(SetupClauses(setup)) :
                                                \E a \in c : a.lhs \in ts})

\* Consistent() is true of a setup with units and a stored clause that the
\* units have shortened.
C24_Witness ==
    /\ status = "running"
    /\ Consistent(setup)
    /\ setup.vec_ # <<>>
    /\ \E i \in 1..Len(setup.clauses_) :
          /\ PropagateUnits(setup.clauses_[i], setup.set_) # setup.clauses_[i]
          /\ Cardinality(PropagateUnits(setup.clauses_[i], setup.set_)) >= 2

\* The number of negations above the atomic clause that phi is but for
\* negations and quantifiers; -1 when phi is not of that shape.
RECURSIVE NegationsAbove(_)
NegationsAbove(phi) ==
    CASE phi.type = "Atomic" -> 0
      [] phi.type = "Not" ->
            IF NegationsAbove(phi.arg) < 0 THEN -1 ELSE NegationsAbove(phi.arg) + 1
      [] phi.type = "Exists" -> NegationsAbove(phi.arg)
      [] OTHER -> -1

RECURSIVE ClauseBelow(_)
ClauseBelow(phi) == IF phi.type = "Atomic" THEN phi.c ELSE ClauseBelow(phi.arg)

\* A side of a disjunction that Or::Normalize may merge.
Mergeable(phi) ==
    /\ NegationsAbove(phi) >= 0
    /\ NegationsAbove(phi) % 2 = 0 \/ Cardinality(ClauseBelow(phi)) = 1

\* What the claim says of the node phi and of every node below it; cached
\* is the node of the formula as it was before Rectify.
RECURSIVE NegationPushed(_, _, _)
NegationPushed(phi, cached, d) ==
    CASE phi.type = "Atomic" -> TRUE
      [] phi.type = "Or" ->
            LET l == NormalizeCached(phi.lhs, cached.lhs, d)
                r == NormalizeCached(phi.rhs, cached.rhs, d)
            IN  /\ NormalizeCached(phi, cached, d) # Or(l, r) => Mergeable(l) /\ Mergeable(r)
                /\ NegationPushed(phi.lhs, cached.lhs, d)
                /\ NegationPushed(phi.rhs, cached.rhs, d)
      [] phi.type = "Not" ->
            /\ phi.arg.type = "Not" =>
                  NormalizeCached(phi, cached, d) =
                      NormalizeCached(phi.arg.arg, cached.arg.arg, d)
            /\ (phi.arg.type = "Atomic" /\ Cardinality(phi.arg.c) = 1) =>
                  \E a \in phi.arg.c : NormalizeCached(phi, cached, d) = Atomic({Flip(a)})
            /\ (phi.arg.type = "Atomic" /\ Cardinality(phi.arg.c) >= 2) =>
                  NormalizeCached(phi, cached, d) = phi
            /\ NegationPushed(phi.arg, cached.arg, d)
      [] OTHER -> NegationPushed(phi.arg, cached.arg, d)

\* C25: in the first Normalize pass of NF, at every node of the formula,
\* Not(Not(psi)) normalizes to what psi normalizes to, Not of a unit clause
\* {a} to the clause {flip(a)}, Not of a clause of two or more literals to
\* itself, and a disjunction is merged into one clause only when each
\* normalized side is atomic under a prefix with an even number of negations
\* or is a unit clause under its prefix.
C25_NegationPushed ==
    nf.op = "NF" =>
        /\ nf.first = NormalizeCached(nf.rect, nf.phi, nf.distribute)
        /\ NegationPushed(nf.rect, nf.phi, nf.distribute)

\* NF was applied to a disjunction of a double negation and a negated unit
\* clause, and the first pass merged the two sides into one clause of two
\* literals.
C25_Witness ==
    /\ nf.op = "NF"
    /\ nf.phi.type = "Or"
    /\ nf.phi.lhs.type = "Not"
    /\ nf.phi.lhs.arg.type = "Not"
    /\ nf.phi.rhs.type = "Not"
    /\ nf.first.type = "Atomic"
    /\ Cardinality(nf.first.c) = 2

\* C26, as stated: for every atomic clause and every order in which the
\* queue is worked off, Flatten returns with none of its assertions false,
\* with at least as many literals as the clause had, and each of them
\* quasi-primitive or free of functions.
C26_FlattenPost ==
    nf.op = "Flatten" =>
        /\ nf.end = "ok"
        /\ nf.broken = {}
        /\ Cardinality(ClauseBelow(nf.r)) >= Cardinality(nf.c)
        /\ \A a \in ClauseBelow(nf.r) : Flattened(a)

\* C26, the loop: every call of Flatten returns.
C26_FlattenReturns == (run.op = "Flatten") ~> (run.op = "none")

\* phi, its free variables read as universally quantified, is true in w.
ClosureHolds(w, phi) == \A env \in [FreeVars(phi) -> Pool] : Holds(w, env, phi)

\* phi is equivalent to the universal closure of the clause c.
IsUnivClause(phi, c) == \A w \in Worlds : ClosureHolds(w, phi) = ClosureHolds(w, Atomic(c))

\* The shape the claim gives the accepted formulas: clauses and
\* disjunctions under an even number of negations, quantifiers under an odd
\* number, no modal operator.
RECURSIVE UnivShape(_, _)
UnivShape(phi, nots) ==
    CASE phi.type = "Atomic" -> nots % 2 = 0
      [] phi.type = "Or" ->
            nots % 2 = 0 /\ UnivShape(phi.lhs, nots) /\ UnivShape(phi.rhs, nots)
      [] phi.type = "Exists" -> nots % 2 = 1 /\ UnivShape(phi.arg, nots)
      [] phi.type = "Not" -> UnivShape(phi.arg, nots + 1)
      [] OTHER -> FALSE

BelConsistent(b) ==
    LET phi == Or(Not(b.ante), b.conse)
    IN  /\ Equivalent(b.not_ante_or_conse, phi)
        /\ FreeVars(b.not_ante_or_conse) = FreeVars(phi)
        /\ Range(Binders(b.not_ante_or_conse)) \subseteq Range(Binders(phi))

BelStages == <<nf.phi, nf.clone, nf.rect, nf.first, nf.flat, nf.r>>

\* C28: after construction, Clone, Rectify, Normalize and Flatten the
\* stored not_antecedent_or_consequent of a Bel is logically equivalent to
\* ~antecedent v consequent of the same node and uses the same variable
\* renaming as the antecedent and the consequent.
C28_BelConsistent ==
    nf.op = "Bel" => \A i \in DOMAIN BelStages : BelConsistent(BelStages[i])

\* What does hold: the parts agree after construction and Clone, and
\* through all of NF when neither part has a quantifier.
C28_BelQuantifierFree ==
    nf.op = "Bel" =>
        /\ BelConsistent(nf.phi) /\ BelConsistent(nf.clone)
        /\ nf.phi.ante \in Signed /\ nf.phi.conse \in Signed
              => \A i \in DOMAIN BelStages : BelConsistent(BelStages[i])

\* The three parts differ from Rectify on only if a quantifier of the
\* antecedent or consequent is met a second time in the stored implication.
C28_BelRectifyRenamesTwice ==
    nf.op = "Bel" /\ ~BelConsistent(nf.rect) =>
        \E x \in Range(Binders(Or(Not(nf.phi.ante), nf.phi.conse))) :
            x \notin Range(Binders(nf.rect.not_ante_or_conse))

\* C29: UnregisterMetaVariable(id) throws and changes nothing when id is
\* not registered; when it is, the id is no longer registered afterwards,
\* the other meta variables are as before, and the id can be registered
\* again with any term.  RegisterMetaVariable(id, t) of an unregistered id
\* succeeds, and LookupMetaVariable(id) then returns t.
C29_MetaVariableProtocol ==
    [][/\ last'.op = "UnregisterMetaVariable" =>
             IF ~IsRegisteredMetaVariable(ctx, last'.id)
             THEN last'.r = "throw" /\ ctx' = ctx
             ELSE /\ last'.r = "ok"
                  /\ ~IsRegisteredMetaVariable(ctx', last'.id)
                  /\ \A id \in Ids \ {last'.id} :
                        /\ IsRegisteredMetaVariable(ctx', id) = IsRegisteredMetaVariable(ctx, id)
                        /\ IsRegisteredMetaVariable(ctx, id) =>
                              LookupMetaVariable(ctx', id) = LookupMetaVariable(ctx, id)
                  /\ \A t \in {Name(1), Name(2)} :
                        Register(ctx'.meta_vars_, last'.id, t)[last'.id] = t
       /\ \A id \in Ids : \A t \in {Name(1), Name(2)} :
             DoRegisterMetaVariable(id, t) /\ ~IsRegisteredMetaVariable(ctx, id) =>
                /\ last'.r = "ok"
                /\ IsRegisteredMetaVariable(ctx', id)
                /\ LookupMetaVariable(ctx', id) = t]_vars

\* A meta variable has been registered and unregistered again, another one
\* is still registered.
C29_Witness ==
    /\ last.op = "UnregisterMetaVariable"
    /\ last.r = "ok"
    /\ ~IsRegisteredMetaVariable(ctx, last.id)
    /\ \E id \in Ids : IsRegisteredMetaVariable(ctx, id)

\* The verdict of the knowledge base for the call in progress.
KbVerdict ==
    IF run.op = "Query" THEN Entails(setup, run.alpha.modal, run.alpha.k, run.alpha.q)
    ELSE run.ok

\* C30: in each AddToKb and each Query call the logger is invoked exactly
\* once, after the call on the knowledge base, with the boolean that is
\* then returned to the caller; the logger changes neither the knowledge
\* base nor that boolean, and the value returned is the verdict of the
\* knowledge base whatever the logger made of it.
C30_LoggerObserves ==
    [][/\ run.op = "none" /\ run'.op \in {"AddToKb", "Query"} =>
             run'.log = <<>> /\ run'.pc = "logger_" /\ last' = last
       /\ run.op \in {"AddToKb", "Query"} /\ run'.op = run.op =>
             /\ run.pc = "logger_" /\ run'.pc = "return"
             /\ Len(run'.log) = 1
             /\ run'.log[1].d.ok = run.ok
             /\ run'.log[1].d.alpha = run.alpha
             /\ run'.ok = run.ok
             /\ <<setup, kb, status, last>>' = <<setup, kb, status, last>>
       /\ run.op \in {"AddToKb", "Query"} /\ run'.op = "none" =>
             /\ Len(run.log) = 1
             /\ last'.op = run.op
             /\ last'.r = run.log[1].d.ok
             /\ last'.r = KbVerdict
             /\ <<setup, kb, status>>' = <<setup, kb, status>>]_vars

\* A Query answered yes has returned after its logger had been called
\* once with yes, on a knowledge base that AddToKb has filled.
C30_Witness ==
    /\ last.op = "Query"
    /\ last.r = TRUE
    /\ run.op = "none"
    /\ kb # {}

\* The clauses Subsumes is asked about: those added, their literals, the
\* empty clause.
SpawnQueries == SetupInputs \cup {{a} : a \in UNION SetupInputs} \cup {{}}

HeapAfter == [root |-> lela', spawned |-> copies']

\* What s answers: Subsumes for each query, and Consistent.
Answers(H, s) ==
    [subsumes |-> {c \in SpawnQueries : SetupSubsumes(H, s, c)},
     consistent |-> SetupConsistent(H, s)]

\* Setup k sees the clauses and units of its parent at their indices.
SeesParent(H, k) ==
    LET p == Obj(H, k).parent_
    IN  /\ first_clause(H, k) = last_clause(H, p)
        /\ first_unit(H, k) = last_unit(H, p)
        /\ \A i \in 0..(last_clause(H, p) - 1) : clause(H, k, i) = clause(H, p, i)
        /\ \A u \in 0..(last_unit(H, p) - 1) : unit(H, k, u) = unit(H, p, u)

\* C31: a spawned setup is isolated from its parent.  AddClause on a setup
\* leaves what every other setup answers to Subsumes and Consistent as it
\* was, also when it disables inherited clauses or derives the empty
\* clause; a setup just spawned has the enabled clauses, the units and the
\* answers of its parent, and every spawned setup finds the clauses and
\* units of its parent at the same global index.
C31_SpawnIsolated ==
    [][/\ \A s \in Objects(Heap) :
             s \notin last'.changed => Answers(HeapAfter, s) = Answers(Heap, s)
       /\ \A k \in Objects(HeapAfter) \ Objects(Heap) :
             LET p == Obj(HeapAfter, k).parent_
             IN  /\ clauses(HeapAfter, k) = clauses(Heap, p)
                 /\ units(HeapAfter, k) = units(Heap, p)
                 /\ Answers(HeapAfter, k) = Answers(Heap, p)
       /\ \A k \in 1..Len(copies') : SeesParent(HeapAfter, k)]_vars

\* A spawned setup has disabled a clause it inherited and has derived the
\* empty clause; its parent has the clause enabled and is consistent.
C31_Witness ==
    \E k \in 1..Len(copies) :
        LET p == copies[k].parent_
        IN  /\ last.op = "lela::AddClause"
            /\ copies[k].contains_empty_clause_
            /\ SetupConsistent(Heap, p)
            /\ \E i \in clauses(Heap, p) : ~enabled(Heap, k, i)

\* No enabled clause of s is subsumed by a different enabled clause.
SetupMinimal(H, s) ==
    \A i, j \in clauses(H, s) : i # j => ~ClauseSubsumes(clause(H, s, i), clause(H, s, j))

\* No stored unit of s shortens an enabled clause of two or more literals.
SetupClosed(H, s) ==
    \A i \in clauses(H, s) :
        Cardinality(clause(H, s, i)) >= 2 =>
            \A a \in units(H, s) : PropagateUnits(clause(H, s, i), {a}) = clause(H, s, i)

\* contains_empty_clause_ of s is set iff the empty clause is among the
\* clauses s has stored or inherited.
EmptyClauseFlagged(H, s) ==
    Obj(H, s).contains_empty_clause_
        <=> \E i \in 0..(last_clause(H, s) - 1) : clause(H, s, i) = {}

\* C32: after every AddClause the enabled clauses of a parent-linked setup
\* are minimal under subsumption and closed under unit propagation, and
\* contains_empty_clause_ is true iff the empty clause was derived.
C32_MinimalClosed ==
    \A s \in Objects(Heap) :
        SetupMinimal(Heap, s) /\ SetupClosed(Heap, s) /\ EmptyClauseFlagged(Heap, s)

\* No literal of an enabled clause of s subsumes another literal of it.
LiteralsReduced(H, s) ==
    \A i \in clauses(H, s) :
        \A a, b \in clause(H, s, i) : a # b => ~LitSubsumes(a, b)

\* What does hold: the flag is exact, no enabled clause is subsumed by
\* another, and a setup in whose enabled clauses no literal subsumes
\* another is closed under unit propagation.
C32_ClosedWhenReduced ==
    \A s \in Objects(Heap) :
        /\ EmptyClauseFlagged(Heap, s)
        /\ SetupMinimal(Heap, s)
        /\ LiteralsReduced(Heap, s) => SetupClosed(Heap, s)

\* What Setup::AddUnit(a) returns in the current state.
AddUnitReturns(a) == AddUnit(setup, a).r

\* The literals AddUnit is called with in a step: through a ShallowCopy,
\* or by AddClause for a clause that the units leave with one literal.
AddUnitCalls ==
    {a \in CopyLits : DoCopyAddUnit(a)}
        \cup {First(PropagateUnits(c, setup.set_)) :
                c \in {d \in InputClauses :
                          /\ DoAddClause(d)
                          /\ last'.r = "ok"
                          /\ Cardinality(PropagateUnits(d, setup.set_)) = 1}}

\* C33: AddUnit reports inconsistency faithfully.  Whenever a call of
\* AddUnit, direct or through a ShallowCopy, changes empty_clause_ from
\* false to true (also when a stored clause is propagated to the empty
\* clause) it returns kInconsistent, and it returns kInconsistent only if
\* empty_clause_ is true afterwards.
C33_AddUnitFaithful ==
    [][\A a \in AddUnitCalls :
          /\ ~setup.empty_clause_ /\ setup'.empty_clause_ =>
                AddUnitReturns(a) = "kInconsistent"
          /\ AddUnitReturns(a) = "kInconsistent" => setup'.empty_clause_]_vars

\* What does hold: kInconsistent is returned only with empty_clause_ set,
\* and an empty clause that comes with another result has been derived
\* from a stored clause all of whose literals the new units falsify.
C33_InconsistentOnlyIfEmpty ==
    [][\A a \in AddUnitCalls :
          /\ AddUnitReturns(a) = "kInconsistent" => setup'.empty_clause_
          /\ ~setup.empty_clause_ /\ setup'.empty_clause_
                /\ AddUnitReturns(a) # "kInconsistent" =>
                   \E i \in 1..Len(setup'.clauses_) :
                      PropagateUnits(setup'.clauses_[i], setup'.set_) = {}]_vars

\* C34: Determines(t) is exact.  In every reachable state, sealed or
\* unsealed, it returns true iff the unit store contains a positive unit
\* whose lhs is t; a positive unit with another lhs in the hash bucket of t
\* does not make it true.
C34_DeterminesExact ==
    status = "running" =>
        \A t \in PTerms \cup {FTerm} :
            UnitsDetermines(setup, t) <=> \E u \in Range(setup.vec_) : u.lhs = t /\ u.pos

\* What does hold: a term with a positive unit in the store is determined.
C34_DeterminesComplete ==
    status = "running" =>
        \A t \in PTerms \cup {FTerm} :
            (\E u \in Range(setup.vec_) : u.lhs = t /\ u.pos) => UnitsDetermines(setup, t)

\* The step is a call of Minimize that follows a call of Minimize which
\* returned, with nothing in between.
MinimizeAgain ==
    /\ last.op = "Minimize" /\ last.r = "ok" /\ status = "running"
    /\ last'.op = "Minimize"

\* The sealed prefix of the unit vector: n_orig_ units, sorted, no two
\* equal.
SealedPrefix == SealedSorted(setup)

\* C35: Minimize is idempotent and safe to repeat.  Called twice in a row,
\* also with negative units in the store, the second call violates no
\* assertion and leaves the units and the clauses as the first call left
\* them; and the sealed prefix of the unit vector is always sorted,
\* duplicate-free and of length n_orig_ <= |units|.
C35_MinimizeIdempotent ==
    /\ [][MinimizeAgain =>
             /\ last'.r = "ok" /\ status' = "running"
             /\ setup'.vec_ = setup.vec_
             /\ Range(setup'.clauses_) = Range(setup.clauses_)
             /\ setup'.empty_clause_ = setup.empty_clause_]_vars
    /\ [](status = "running" => SealedPrefix)

\* What does hold: a second Minimize of a store without negative units
\* returns and leaves the units and the set of clauses as they were.
C35_IdempotentWithoutNegativeUnits ==
    [][MinimizeAgain /\ (\A u \in Range(setup.vec_) : u.pos) =>
          /\ last'.r = "ok" /\ status' = "running"
          /\ setup'.vec_ = setup.vec_
          /\ Range(setup'.clauses_) = Range(setup.clauses_)
          /\ setup'.empty_clause_ = setup.empty_clause_]_vars

\* Every node of phi has the free variables that its cache holds, cached
\* being the formula as it was when free_vars() filled the caches.
RECURSIVE CacheFresh(_, _)
CacheFresh(phi, cached) ==
    /\ FreeVars(phi) = FreeVars(cached)
    /\ CASE phi.type = "Atomic" -> TRUE
         [] phi.type = "Or" -> CacheFresh(phi.lhs, cached.lhs) /\ CacheFresh(phi.rhs, cached.rhs)
         [] OTHER -> CacheFresh(phi.arg, cached.arg)

\* Every quantifier of phi that Exists::Normalize drops, going by the
\* cache of its body, binds a variable that is not free in its body.
RECURSIVE DropsOnlyVacuous(_, _)
DropsOnlyVacuous(phi, cached) ==
    CASE phi.type = "Atomic" -> TRUE
      [] phi.type = "Or" ->
            DropsOnlyVacuous(phi.lhs, cached.lhs) /\ DropsOnlyVacuous(phi.rhs, cached.rhs)
      [] phi.type = "Exists" ->
            /\ phi.x \notin FreeVars(cached.arg) => phi.x \notin FreeVars(phi.arg)
            /\ DropsOnlyVacuous(phi.arg, cached.arg)
      [] OTHER -> DropsOnlyVacuous(phi.arg, cached.arg)

\* C36: the free-variable cache is never stale.  After Rectify in NF,
\* free_vars() of every node is the set of variables free in the node as it
\* is now, so that Exists::Normalize drops a quantifier only when its
\* variable does not occur free in its body.
C36_CacheFresh ==
    nf.op = "NF" => CacheFresh(nf.rect, nf.phi) /\ DropsOnlyVacuous(nf.rect, nf.phi)

\* What does hold: the caches are those of the formula before Rectify, and
\* where Rectify has renamed no variable they are right.
C36_FreshUnlessRenamed ==
    nf.op = "NF" /\ Range(Binders(nf.rect)) = Range(Binders(nf.phi)) =>
        CacheFresh(nf.rect, nf.phi) /\ DropsOnlyVacuous(nf.rect, nf.phi)

\* The belief levels of a modal formula: k, and l for Bel.
Levels(phi) ==
    CASE phi.type \in {"Know", "Cons"} -> <<phi.k>>
      [] phi.type = "Bel" -> <<phi.k, phi.l>>
      [] OTHER -> <<>>

\* C37: formula equality is structural and includes the modal parameters.
\* The clone of a formula is == to the formula, and two formulas that are
\* == have the same belief levels and the same sub-formulas, for Bel also
\* the same consequent.
C37_EqualityStructural ==
    nf.op = "==" =>
        /\ nf.eq_clone
        /\ nf.eq => Levels(nf.phi) = Levels(nf.that) /\ nf.phi = nf.that

\* What does hold: the clone is == to the original, and formulas that are
\* == differ in nothing but belief levels.
RECURSIVE Unlevelled(_)
Unlevelled(phi) ==
    CASE phi.type = "Atomic" -> phi
      [] phi.type = "Or" -> Or(Unlevelled(phi.lhs), Unlevelled(phi.rhs))
      [] phi.type = "Exists" -> Exists(phi.x, Unlevelled(phi.arg))
      [] phi.type \in {"Know", "Cons"} -> [phi EXCEPT !.k = 0, !.arg = Unlevelled(phi.arg)]
      [] phi.type = "Bel" ->
            [phi EXCEPT !.k = 0, !.l = 0, !.ante = Unlevelled(phi.ante),
                        !.conse = Unlevelled(phi.conse),
                        !.not_ante_or_conse = Unlevelled(phi.not_ante_or_conse)]
      [] OTHER -> [phi EXCEPT !.arg = Unlevelled(phi.arg)]

C37_EqualUpToLevels ==
    nf.op = "==" =>
        /\ nf.eq_clone /\ nf.clone = nf.phi
        /\ nf.eq => Unlevelled(nf.phi) = Unlevelled(nf.that)
        /\ nf.phi = nf.that => nf.eq

\* C38: Setup::clause(i) enumerates the setup in a fixed order consistent
\* with clauses().  Every index of the range is valid; index 0 is the empty
\* clause iff empty_clause_ holds; then come the units in the order of the
\* vector; then every stored clause, none omitted, with the current units
\* propagated through it.
C38_ClauseEnumerates ==
    status = "running" =>
        LET S   == setup
            off == IF S.empty_clause_ THEN 1 ELSE 0
        IN  /\ \A i \in clause_range(S) : SetupClause(S, i).defined
            /\ 0 \in clause_range(S) => (SetupClause(S, 0).c = {} <=> S.empty_clause_)
            /\ \A j \in 1..Len(S.vec_) :
                   /\ off + j - 1 \in clause_range(S)
                   /\ SetupClause(S, off + j - 1) = Returned({S.vec_[j]})
            /\ \A k \in 1..Len(S.clauses_) :
                   /\ off + Len(S.vec_) + k - 1 \in clause_range(S)
                   /\ SetupClause(S, off + Len(S.vec_) + k - 1)
                          = Returned(PropagateUnits(S.clauses_[k], Range(S.vec_)))
            /\ Cardinality(clause_range(S)) = off + Len(S.vec_) + Len(S.clauses_)

\* The setup holds the empty clause, units and stored clauses at once, and
\* clause(i) returns a stored clause shortened by the units.
C38_Witness ==
    /\ status = "running"
    /\ setup.empty_clause_
    /\ Len(setup.vec_) >= 2
    /\ \E k \in 1..Len(setup.clauses_) :
           SetupClause(setup, Len(setup.vec_) + k).c # setup.clauses_[k]

\* The first index at which two vectors of one size differ.
FirstDiffering(vec1, vec2) ==
    CHOOSE i \in 0..(vec1.size - 1) :
        /\ vector_get(vec1, i) # vector_get(vec2, i)
        /\ \A j \in 0..(i - 1) : vector_get(vec1, j) = vector_get(vec2, j)

Sign(n) == IF n < 0 THEN -1 ELSE IF n > 0 THEN 1 ELSE 0

\* C39: vector_cmp orders vectors first by size and then element-wise: of
\* two vectors of different size the shorter is less than the longer
\* whatever they hold, and for two of one size the result is the comparison
\* of the first elements that differ (0 if none does).  After
\* vector_insert(v, i, e), vector_get(v, i) returns e, the elements before i
\* are as they were, and those that were at i and after follow in their
\* order.
C39_CmpAndInsert ==
    /\ nf.op = "vector_cmp" =>
           LET v1 == nf.vec1
               v2 == nf.vec2
           IN  /\ v1.size < v2.size => nf.r < 0
               /\ v1.size > v2.size => nf.r > 0
               /\ v1.size = v2.size /\ v1.array = v2.array => nf.r = 0
               /\ v1.size = v2.size /\ v1.array # v2.array =>
                      LET i == FirstDiffering(v1, v2)
                      IN  /\ nf.r # 0
                          /\ Sign(nf.r) = Sign(Compar(nf.compar, vector_get(v1, i),
                                                      vector_get(v2, i)))
    /\ nf.op = "vector_insert" =>
           /\ vector_size(nf.vec) = vector_size(nf.before) + 1
           /\ vector_get(nf.vec, nf.index) = nf.elem
           /\ \A j \in 0..(nf.index - 1) : vector_get(nf.vec, j) = vector_get(nf.before, j)
           /\ \A j \in nf.index..(vector_size(nf.before) - 1) :
                  vector_get(nf.vec, j + 1) = vector_get(nf.before, j)

\* A shorter vector with the larger elements is compared with a longer one,
\* or an element is inserted before the last of a full vector.
C39_Witness ==
    \/ /\ nf.op = "vector_cmp"
       /\ nf.vec1.size = 1 /\ nf.vec2.size = 2
       /\ vector_get(nf.vec1, 0) > vector_get(nf.vec2, 0)
    \/ /\ nf.op = "vector_insert"
       /\ nf.before.size = 2 /\ nf.index = 1
       /\ nf.elem # vector_get(nf.before, 1)

====
